---------------------------- MODULE Spec2Model ----------------------------
(***************************************************************************)
(* NoteSphere backend: the retrieval-augmented question-answering core.    *)
(* Chunker, embedder, safe content fetcher (URL validation, per-user rate  *)
(* limiter, retry loop), vector store adapter and the orchestrator         *)
(* (indexContent / answerQuestion / unindexContent).                       *)
(*                                                                         *)
(* Strings are run-length encoded: a string is a sequence of runs          *)
(* <<ch, n>>, n >= 1 copies of the one-character string ch.  All string    *)
(* operations of the code that the model needs (length, concatenation,     *)
(* trim, split on a regular expression) are computed on that encoding, so  *)
(* the thresholds of the code (50, 500) keep their values.                 *)
(***************************************************************************)
EXTENDS Integers, Sequences, FiniteSets, TLC

VARIABLES
    chunkIn,        \* chunker: the call's arguments [text, chunkSize]
    chunkOut,       \* chunker: the returned chunks
    chunkDone,      \* chunker: whether chunkText has returned
    embeddingPipeline,  \* embedder: the module-level model handle, Null until loaded
    many,           \* embedder: the createEmbeddings call in flight
    one,            \* embedder: the createEmbedding call in flight
    now,            \* fetcher: Date.now(), in milliseconds
    userRequestCounts,  \* fetcher: the Map userId -> {count, resetTime}
    admitLog,       \* history: times of the last admitted fetches of Watched
    rejectedAt,     \* history: time of the last fetch of Watched that the
                    \* limiter rejected, -1 if none
    env,            \* fetcher: process.env as read by contentExtractor.ts
    fetch,          \* fetcher: the extractContentFromUrl call in flight
    store,          \* vector index: record id -> [values, metadata]
    index,          \* orchestrator: the indexContent call in flight
    unindex,        \* orchestrator: the unindexContent call in flight
    answer,         \* orchestrator: the answerQuestion call in flight
    indexedFor,     \* history: the content ids that Watched has indexed with
                    \* success and that were not unindexed since
    unindexed,      \* history: the content ids whose unindexContent returned,
                    \* with no indexContent for them started since it was called
    probe,          \* fetcher: a validateUrl call on its own, [input, url, verdict]
    docs,           \* document store: the documents of ContentModel, id -> userId
    create,         \* server: the POST /api/v1/content request in flight
    second,         \* orchestrator: a second indexContent call in flight
    remove          \* server: the DELETE /api/v1/content request in flight

chunkVars == <<chunkIn, chunkOut, chunkDone>>

embedVars == <<embeddingPipeline, many, one>>

rateVars == <<now, userRequestCounts, admitLog, rejectedAt>>

vars == <<chunkIn, chunkOut, chunkDone, embeddingPipeline, many, one,
          now, userRequestCounts, admitLog, rejectedAt, env, fetch,
          store, index, unindex, answer, indexedFor, unindexed,
          probe, docs, create, second, remove>>

docVars == <<docs, create, second, remove>>

fetchVars == <<env, fetch>>

ragVars == <<store, index, unindex, answer, indexedFor, unindexed>>

exceptChunk == <<embedVars, rateVars, fetchVars, ragVars, probe, docVars>>

exceptEmbed == <<chunkVars, rateVars, fetchVars, ragVars, probe, docVars>>

exceptRate == <<chunkVars, embedVars, fetchVars, ragVars, probe, docVars>>

\* the fetcher's call reads the clock and writes the limiter's Map
exceptFetch == <<chunkVars, embedVars, now, admitLog, rejectedAt, ragVars, probe,
                 docVars>>

\* the orchestrator's calls load the embedding model
exceptRag == <<chunkVars, many, one, rateVars, fetchVars, probe, docVars>>

Null == "null"

IdleChunk ==
    /\ chunkIn = [text |-> <<>>, chunkSize |-> 0]
    /\ chunkOut = <<>>
    /\ chunkDone = FALSE

IdleMany == [pc |-> "idle", texts |-> <<>>, pending |-> {}, completions |-> <<>>,
             result |-> <<>>]

IdleOne == [pc |-> "idle", text |-> <<>>, result |-> -1]

IdleEmbed ==
    /\ embeddingPipeline = Null
    /\ many = IdleMany
    /\ one = IdleOne

\* a falsy userId: the fetch is made without a user
NoUser == ""

NoEnv == [allowed |-> <<>>, token |-> FALSE]

NoOutcome == [ok |-> FALSE, isAxios |-> FALSE, status |-> -1, page |-> "none"]

IdleCall == [pc |-> "idle", url |-> <<>>, userId |-> NoUser, before |-> <<>>,
             path |-> "none", attempt |-> 0, requests |-> 0, apiCalls |-> 0,
             waits |-> 0, delay |-> 0, lastOutcome |-> NoOutcome,
             retrieval |-> "none", response |-> NoOutcome,
             retrievalError |-> NoOutcome, failed |-> FALSE, result |-> <<>>,
             error |-> "none"]

IdleFetch ==
    /\ env = NoEnv
    /\ fetch = IdleCall

IdleIndex == [pc |-> "idle", userId |-> NoUser, contentId |-> "", title |-> <<>>,
              link |-> <<>>, text |-> <<>>, fetchError |-> "none",
              fetched |-> <<>>, fullText |-> <<>>, loading |-> FALSE,
              chunks |-> <<>>, embeddings |-> <<>>, result |-> "none"]

IdleUnindex == [pc |-> "idle", contentId |-> "", clean |-> TRUE]

IdleAnswer == [pc |-> "idle", userId |-> NoUser, question |-> <<>>,
               loading |-> FALSE, questionEmbedding |-> -1, queries |-> 0, hits |-> <<>>,
               sources |-> <<>>, answer |-> "none", title |-> <<>>,
               titleFailed |-> FALSE, discarded |-> <<>>]

IdleRag ==
    /\ store = <<>>
    /\ index = IdleIndex
    /\ unindex = IdleUnindex
    /\ answer = IdleAnswer
    /\ indexedFor = {}
    /\ unindexed = {}

NoInput == [scheme |-> <<>>, sep |-> <<>>,
            host |-> [kind |-> "name", octets |-> <<>>, name |-> <<>>],
            port |-> <<>>, path |-> <<>>]

IdleProbe == probe = [input |-> NoInput, url |-> <<>>, verdict |-> "none"]

IdleCreate == [pc |-> "idle", userId |-> NoUser, contentId |-> "", status |-> 0,
               made |-> 0]

IdleSecond == IdleIndex

IdleRemove == [pc |-> "idle", userId |-> NoUser, contentId |-> "", status |-> 0]

IdleDocs ==
    /\ docs = <<>>
    /\ create = IdleCreate
    /\ second = IdleSecond
    /\ remove = IdleRemove

IdleRate ==
    /\ now = 0
    /\ userRequestCounts = <<>>
    /\ admitLog = <<>>
    /\ rejectedAt = -1

-----------------------------------------------------------------------------
(* Strings *)

Ch(c) == <<c, 1>>

Run(c, n) == <<c, n>>

EmptyStr == <<>>

\* JavaScript \s and String.prototype.trim: the white-space characters used here
IsWs(c) == c \in {" ", "\n"}

\* the character class [.!?] of the sentence splitter
IsTerminal(c) == c \in {".", "!", "?"}

\* number of characters in the runs lo .. hi of s
RECURSIVE RunsLen(_, _, _)
RunsLen(s, lo, hi) ==
    IF lo > hi THEN 0
    ELSE IF lo = hi THEN s[lo][2]
    ELSE LET mid == (lo + hi) \div 2
         IN RunsLen(s, lo, mid) + RunsLen(s, mid + 1, hi)

\* String.prototype.length
StrLen(s) == RunsLen(s, 1, Len(s))

\* canonical form: adjacent runs of the same character merged
RECURSIVE Norm(_)
Norm(s) ==
    IF Len(s) <= 1 THEN s
    ELSE IF s[1][1] = s[2][1]
         THEN Norm(<<Run(s[1][1], s[1][2] + s[2][2])>> \o SubSeq(s, 3, Len(s)))
         ELSE <<s[1]>> \o Norm(Tail(s))

RECURSIVE TrimStart(_)
TrimStart(s) ==
    IF s = <<>> THEN s
    ELSE IF IsWs(s[1][1]) THEN TrimStart(Tail(s)) ELSE s

RECURSIVE TrimEnd(_)
TrimEnd(s) ==
    IF s = <<>> THEN s
    ELSE IF IsWs(s[Len(s)][1]) THEN TrimEnd(SubSeq(s, 1, Len(s) - 1)) ELSE s

\* String.prototype.trim
Trim(s) == TrimEnd(TrimStart(s))

\* the non-white-space characters of a string, in order
RECURSIVE NonWs(_)
NonWs(s) ==
    IF s = <<>> THEN s
    ELSE IF IsWs(s[1][1]) THEN NonWs(Tail(s)) ELSE <<s[1]>> \o NonWs(Tail(s))

RECURSIVE Flatten(_)
Flatten(ss) == IF ss = <<>> THEN <<>> ELSE ss[1] \o Flatten(Tail(ss))

\* the least element of a non-empty set of numbers
Least(S) == CHOOSE x \in S : \A y \in S : x <= y

\* text.split(/(?<=[.!?])\s+/): a separator is a maximal stretch of white
\* space that directly follows a terminal character; the pieces of s from run
\* i on, i being the first run of a piece
RECURSIVE SplitFrom(_, _)
SplitFrom(s, i) ==
    LET starts == {j \in i .. Len(s) :
                      IsWs(s[j][1]) /\ j > 1 /\ IsTerminal(s[j - 1][1])}
    IN IF starts = {} THEN <<SubSeq(s, i, Len(s))>>
       ELSE LET j == Least(starts)
                k == Least({e \in j .. Len(s) : e = Len(s) \/ ~IsWs(s[e + 1][1])})
            IN <<SubSeq(s, i, j - 1)>> \o SplitFrom(s, k + 1)

SplitSentences(s) == SplitFrom(s, 1)

-----------------------------------------------------------------------------
(* Chunker: embeddingService.ts chunkText *)

\* the for loop of chunkText: returns <<currentChunk, chunks>>
RECURSIVE ChunkLoop(_, _, _, _, _)
ChunkLoop(sentences, i, chunkSize, currentChunk, chunks) ==
    IF i > Len(sentences) THEN <<currentChunk, chunks>>
    ELSE LET sentence == sentences[i] IN
         IF StrLen(currentChunk \o sentence) > chunkSize /\ StrLen(currentChunk) > 0
         THEN ChunkLoop(sentences, i + 1, chunkSize, sentence,
                        Append(chunks, Trim(currentChunk)))
         ELSE ChunkLoop(sentences, i + 1, chunkSize,
                        currentChunk
                          \o (IF StrLen(currentChunk) > 0 THEN <<Ch(" ")>> ELSE <<>>)
                          \o sentence,
                        chunks)

\* a slip in the overflow branch: the sentence that did not fit is not carried
\* over into the new running chunk
RECURSIVE ChunkLoopDrop(_, _, _, _, _)
ChunkLoopDrop(sentences, i, chunkSize, currentChunk, chunks) ==
    IF i > Len(sentences) THEN <<currentChunk, chunks>>
    ELSE LET sentence == sentences[i] IN
         IF StrLen(currentChunk \o sentence) > chunkSize /\ StrLen(currentChunk) > 0
         THEN ChunkLoopDrop(sentences, i + 1, chunkSize, <<>>,
                            Append(chunks, Trim(currentChunk)))
         ELSE ChunkLoopDrop(sentences, i + 1, chunkSize,
                            currentChunk
                              \o (IF StrLen(currentChunk) > 0 THEN <<Ch(" ")>> ELSE <<>>)
                              \o sentence,
                            chunks)

chunkTextDropsOverflow(text, chunkSize) ==
    IF StrLen(text) = 0 THEN <<>>
    ELSE LET r    == ChunkLoopDrop(SplitSentences(text), 1, chunkSize, <<>>, <<>>)
             last == Trim(r[1])
             all  == IF StrLen(last) > 0 THEN Append(r[2], last) ELSE r[2]
         IN IF Len(all) > 0 THEN all ELSE <<text>>

chunkText(text, chunkSize) ==
    IF StrLen(text) = 0 THEN <<>>
    ELSE LET r    == ChunkLoop(SplitSentences(text), 1, chunkSize, <<>>, <<>>)
             last == Trim(r[1])
             all  == IF StrLen(last) > 0 THEN Append(r[2], last) ELSE r[2]
         IN IF Len(all) > 0 THEN all ELSE <<text>>

-----------------------------------------------------------------------------
(* Embedder: embeddingService.ts *)

CharCode(c) ==
    CASE c = "a" -> 1 [] c = "b" -> 2 [] c = "." -> 3 [] c = " " -> 4
      [] c = "\n" -> 5 [] c = ":" -> 6 [] c = "/" -> 7 [] c = "?" -> 8
      [] c = "!" -> 9 [] OTHER -> 10

\* number of directions the model's vectors can take
EmbMod == 7

\* pipe(text, {pooling: "mean", normalize: true}) followed by Array.from: the
\* sentence-transformer is a deterministic function of the text; its vector is
\* abstracted to one of EmbMod directions
RECURSIVE PipeSum(_, _, _)
PipeSum(s, lo, hi) ==
    IF lo > hi THEN 0
    ELSE IF lo = hi THEN (CharCode(s[lo][1]) * s[lo][2] * lo) % EmbMod
    ELSE LET mid == (lo + hi) \div 2
         IN (PipeSum(s, lo, mid) + PipeSum(s, mid + 1, hi)) % EmbMod

pipe(text) == PipeSum(text, 1, Len(text))

\* a slip: the values are collected as they arrive
PromiseAllArrivalOrder(completions, n) ==
    [k \in 1 .. Len(completions) |-> completions[k][2]]

\* Promise.all over the promises of texts.map: the value of promise i is put at
\* position i, whatever the order of completion.  completions is the sequence
\* of <<i, value>> in the order the promises were fulfilled.
PromiseAll(completions, n) ==
    [i \in 1 .. n |->
        LET done == CHOOSE c \in {completions[k] : k \in 1 .. Len(completions)} :
                        c[1] = i
        IN done[2]]

MaxTexts == 3

EmbedTexts == {<<Ch("a")>>, <<Ch("a"), Ch("b")>>, <<Ch("b"), Ch("a")>>}

RECURSIVE TextLists(_)
TextLists(n) ==
    IF n = 0 THEN {<<>>}
    ELSE LET shorter == TextLists(n - 1)
         IN shorter \cup {Append(l, t) : l \in {x \in shorter : Len(x) = n - 1},
                                         t \in EmbedTexts}

\* createEmbeddings(texts) is called: getEmbeddingPipeline() either starts the
\* loader (handle still null) or resolves with the handle
ManyStart(texts) ==
    /\ many.pc \in {"idle", "returned", "failed"}
    /\ many' = [IdleMany EXCEPT !.texts = texts,
                                !.pc = IF embeddingPipeline = Null THEN "loading"
                                       ELSE "launch"]
    /\ UNCHANGED <<embeddingPipeline, one, exceptEmbed>>

\* await pipeline(...) is fulfilled: the handle is stored
ManyLoaded ==
    /\ many.pc = "loading"
    /\ embeddingPipeline' = "model"
    /\ many' = [many EXCEPT !.pc = "launch"]
    /\ UNCHANGED <<one, exceptEmbed>>

\* await pipeline(...) is rejected: caught, "Failed to create embeddings"
ManyLoadFails ==
    /\ many.pc = "loading"
    /\ many' = [many EXCEPT !.pc = "failed"]
    /\ UNCHANGED <<embeddingPipeline, one, exceptEmbed>>

\* texts.map(text => pipe(text)...): every computation is issued at once
ManyLaunch ==
    /\ many.pc = "launch"
    /\ many' = [many EXCEPT !.pc = "running", !.pending = 1 .. Len(many.texts)]
    /\ UNCHANGED <<embeddingPipeline, one, exceptEmbed>>

\* one of the pending computations is fulfilled
ManyComplete(i) ==
    /\ many.pc = "running"
    /\ i \in many.pending
    /\ many' = [many EXCEPT !.pending = @ \ {i},
                            !.completions = Append(@, <<i, pipe(many.texts[i])>>)]
    /\ UNCHANGED <<embeddingPipeline, one, exceptEmbed>>

\* one of the pending computations is rejected: Promise.all rejects
ManyReject(i) ==
    /\ many.pc = "running"
    /\ i \in many.pending
    /\ many' = [many EXCEPT !.pc = "failed", !.pending = {}]
    /\ UNCHANGED <<embeddingPipeline, one, exceptEmbed>>

\* await Promise.all(embeddingPromises) is fulfilled; return embeddings
ManyReturn ==
    /\ many.pc = "running"
    /\ many.pending = {}
    /\ many' = [many EXCEPT !.pc = "returned",
                            !.result = PromiseAll(many.completions, Len(many.texts))]
    /\ UNCHANGED <<embeddingPipeline, one, exceptEmbed>>

\* createEmbedding(text) is called
OneStart(text) ==
    /\ one.pc \in {"idle", "returned", "failed"}
    /\ one' = [IdleOne EXCEPT !.text = text,
                              !.pc = IF embeddingPipeline = Null THEN "loading"
                                     ELSE "running"]
    /\ UNCHANGED <<embeddingPipeline, many, exceptEmbed>>

OneLoaded ==
    /\ one.pc = "loading"
    /\ embeddingPipeline' = "model"
    /\ one' = [one EXCEPT !.pc = "running"]
    /\ UNCHANGED <<many, exceptEmbed>>

OneLoadFails ==
    /\ one.pc = "loading"
    /\ one' = [one EXCEPT !.pc = "failed"]
    /\ UNCHANGED <<embeddingPipeline, many, exceptEmbed>>

\* await pipe(text, ...) is fulfilled; return Array.from(result.data)
OneReturn ==
    /\ one.pc = "running"
    /\ one' = [one EXCEPT !.pc = "returned", !.result = pipe(one.text)]
    /\ UNCHANGED <<embeddingPipeline, many, exceptEmbed>>

\* await pipe(text, ...) is rejected: "Failed to create embedding"
OneFails ==
    /\ one.pc = "running"
    /\ one' = [one EXCEPT !.pc = "failed"]
    /\ UNCHANGED <<embeddingPipeline, many, exceptEmbed>>

InitEmbed ==
    IdleChunk /\ IdleEmbed /\ IdleRate /\ IdleFetch /\ IdleRag /\ IdleProbe /\ IdleDocs

NextEmbed ==
    \/ \E texts \in TextLists(MaxTexts) : ManyStart(texts)
    \/ ManyLoaded
    \/ ManyLoadFails
    \/ ManyLaunch
    \/ \E i \in 1 .. MaxTexts : ManyComplete(i)
    \/ \E i \in 1 .. MaxTexts : ManyReject(i)
    \/ ManyReturn
    \/ \E text \in EmbedTexts : OneStart(text)
    \/ OneLoaded
    \/ OneLoadFails
    \/ OneReturn
    \/ OneFails

SpecEmbed == InitEmbed /\ [][NextEmbed]_vars

\* C8: whenever createEmbeddings(texts) returns, it returns exactly
\* Len(texts) vectors and the vector at position i is the embedding of
\* texts[i], whatever the order in which the computations completed; for the
\* empty list it returns the empty sequence.
C8_BatchOrder ==
    many.pc = "returned" =>
        /\ Len(many.result) = Len(many.texts)
        /\ \A i \in 1 .. Len(many.texts) : many.result[i] = pipe(many.texts[i])
        /\ (many.texts = <<>> => many.result = <<>>)

\* three texts with different embeddings, completed in the order 3, 1, 2
C8_Witness ==
    /\ many.pc = "returned"
    /\ Len(many.texts) = 3
    /\ pipe(many.texts[1]) # pipe(many.texts[3])
    /\ many.completions[1][1] = 3
    /\ many.completions[2][1] = 1

\* C20: over any interleaving of createEmbedding and createEmbeddings calls,
\* also of calls that begin while the first load is pending, the model loader
\* is invoked once: two calls are never both waiting for a load of their own.
C20_SingleInitialization ==
    ~(many.pc = "loading" /\ one.pc = "loading")

-----------------------------------------------------------------------------
(* Safe content fetcher: contentExtractor.ts, URL validation *)

\* URLs and host names are plain sequences of one-character strings
UrlPublic == <<"h", "t", "t", "p", "s", ":", "/", "/", "e", "x", "a", "m", "p", "l", "e", ".", "c", "o", "m", "/", "a", "r", "t", "i", "c", "l", "e">>

UrlLoopback == <<"h", "t", "t", "p", ":", "/", "/", "1", "2", "7", ".", "0", ".", "0", ".", "1", "/", "x">>

UrlPrivate == <<"h", "t", "t", "p", ":", "/", "/", "1", "9", "2", ".", "1", "6", "8", ".", "1", ".", "5", "/">>

UrlFtp == <<"f", "t", "p", ":", "/", "/", "e", "x", "a", "m", "p", "l", "e", ".", "c", "o", "m", "/", "f">>

UrlTweet == <<"h", "t", "t", "p", "s", ":", "/", "/", "x", ".", "c", "o", "m", "/", "U", "s", "e", "r", "/", "s", "t", "a", "t", "u", "s", "/", "1">>

UrlIpv6 == <<"h", "t", "t", "p", ":", "/", "/", "[", ":", ":", "1", "]", "/", "x">>

UrlGarbage == <<"n", "o", "t", " ", "a", " ", "u", "r", "l">>

HostExample == <<"e", "x", "a", "m", "p", "l", "e", ".", "c", "o", "m">>

StartsWith(s, prefix) ==
    Len(s) >= Len(prefix) /\ SubSeq(s, 1, Len(prefix)) = prefix

EndsWith(s, suffix) ==
    Len(s) >= Len(suffix) /\ SubSeq(s, Len(s) - Len(suffix) + 1, Len(s)) = suffix

\* String.prototype.includes
Includes(s, sub) ==
    \E i \in 1 .. Len(s) - Len(sub) + 1 : SubSeq(s, i, i + Len(sub) - 1) = sub

\* first position at or after i where sub occurs in s, 0 if none
IndexFrom(s, sub, i) ==
    LET hits == {j \in i .. Len(s) - Len(sub) + 1 : SubSeq(s, j, j + Len(sub) - 1) = sub}
    IN IF hits = {} THEN 0 ELSE CHOOSE j \in hits : \A k \in hits : j <= k

\* ASCII letters, for String.prototype.toLowerCase and the URL parser
UpperCase == <<"A", "B", "C", "D", "E", "F", "G", "H", "I", "J", "K", "L", "M",
               "N", "O", "P", "Q", "R", "S", "T", "U", "V", "W", "X", "Y", "Z">>

LowerCase == <<"a", "b", "c", "d", "e", "f", "g", "h", "i", "j", "k", "l", "m",
               "n", "o", "p", "q", "r", "s", "t", "u", "v", "w", "x", "y", "z">>

IsDigit(c) == c \in {"0", "1", "2", "3", "4", "5", "6", "7", "8", "9"}

\* the lower-case letter of each upper-case letter
LowerOf ==
    [c \in {UpperCase[k] : k \in 1 .. 26} |->
        LowerCase[CHOOSE k \in 1 .. 26 : UpperCase[k] = c]]

IsAlpha(c) == c \in DOMAIN LowerOf \/ c \in {LowerCase[k] : k \in 1 .. 26}

ToLowerChar(c) == IF c \in DOMAIN LowerOf THEN LowerOf[c] ELSE c

ToLower(s) == [i \in 1 .. Len(s) |-> ToLowerChar(s[i])]

\* the pieces of s between the occurrences of the character c
RECURSIVE SplitOn(_, _)
SplitOn(s, c) ==
    LET i == IndexFrom(s, <<c>>, 1) IN
    IF i = 0 THEN <<s>>
    ELSE <<SubSeq(s, 1, i - 1)>> \o SplitOn(SubSeq(s, i + 1, Len(s)), c)

\* the value of a digit in a base (8, 10 or 16), -1 if it is none
DigitVal(c, base) ==
    LET v == CASE c = "0" -> 0 [] c = "1" -> 1 [] c = "2" -> 2 [] c = "3" -> 3
               [] c = "4" -> 4 [] c = "5" -> 5 [] c = "6" -> 6 [] c = "7" -> 7
               [] c = "8" -> 8 [] c = "9" -> 9
               [] c \in {"a", "A"} -> 10 [] c \in {"b", "B"} -> 11
               [] c \in {"c", "C"} -> 12 [] c \in {"d", "D"} -> 13
               [] c \in {"e", "E"} -> 14 [] c \in {"f", "F"} -> 15
               [] OTHER -> 16
    IN IF v < base THEN v ELSE -1

\* a number as <<hi, lo>> with value hi * 65536 + lo, hi capped at 65536 (2^32
\* and above)
Carried(hi, v) ==
    <<IF hi + (v \div 65536) > 65536 THEN 65536 ELSE hi + (v \div 65536), v % 65536>>

\* the number written by the digits cs in a base, after the digits that made
\* acc; <<-1, -1>> if some character is not a digit of the base
RECURSIVE NumIn(_, _, _)
NumDigit(cs, base, acc, d) ==
    IF d < 0 THEN <<-1, -1>>
    ELSE NumIn(cs, base, Carried(acc[1] * base, acc[2] * base + d))

NumIn(cs, base, acc) ==
    IF cs = <<>> THEN acc
    ELSE NumDigit(Tail(cs), base, acc, DigitVal(cs[1], base))

\* the URL standard's IPv4 number parser: 0x.. is hexadecimal, a leading 0 is
\* octal, else decimal; <<-1, -1>> on failure
NumberPrefix(part) ==
    IF Len(part) >= 2 /\ part[1] = "0" /\ part[2] \in {"x", "X"} THEN 2
    ELSE IF Len(part) >= 2 /\ part[1] = "0" THEN 1
    ELSE 0

ParseIPv4Number(part) ==
    IF part = <<>> THEN <<-1, -1>>
    ELSE NumIn(SubSeq(part, NumberPrefix(part) + 1, Len(part)),
               CASE NumberPrefix(part) = 2 -> 16
                 [] NumberPrefix(part) = 1 -> 8
                 [] OTHER -> 10,
               <<0, 0>>)

\* the labels of a host, without the empty label a trailing dot leaves
WithoutEmptyLast(parts) ==
    IF Len(parts) > 1 /\ parts[Len(parts)] = <<>>
    THEN SubSeq(parts, 1, Len(parts) - 1) ELSE parts

HostParts(h) == WithoutEmptyLast(SplitOn(h, "."))

\* the URL standard's "ends in a number" check
IsNumberLabel(last) ==
    /\ last # <<>>
    /\ \/ \A j \in 1 .. Len(last) : IsDigit(last[j])
       \/ ParseIPv4Number(last)[1] >= 0

LastOf(s) == s[Len(s)]

EndsInNumber(h) == IsNumberLabel(LastOf(HostParts(h)))

\* the decimal digits of a number
RECURSIVE Decimal(_)
Decimal(n) ==
    LET d == <<"0", "1", "2", "3", "4", "5", "6", "7", "8", "9">>[(n % 10) + 1]
    IN IF n < 10 THEN <<d>> ELSE Decimal(n \div 10) \o <<d>>

\* the octets the last of n parts fills
RemainingOctets(n, last) ==
    CASE n = 4 -> <<last[2]>>
      [] n = 3 -> <<last[2] \div 256, last[2] % 256>>
      [] n = 2 -> <<last[1], last[2] \div 256, last[2] % 256>>
      [] OTHER -> <<last[1] \div 256, last[1] % 256, last[2] \div 256, last[2] % 256>>

\* the last of n parts is too large for the octets it fills
LastTooLarge(n, last) ==
    \/ n = 4 /\ (last[1] > 0 \/ last[2] > 255)
    \/ n = 3 /\ last[1] > 0
    \/ n = 2 /\ last[1] > 255
    \/ n = 1 /\ last[1] > 65535

Dotted(octets) ==
    Decimal(octets[1]) \o <<".">> \o Decimal(octets[2]) \o <<".">>
    \o Decimal(octets[3]) \o <<".">> \o Decimal(octets[4])

\* the address of the parsed parts in dotted-decimal form, <<>> on failure:
\* every part but the last is one octet; the last part fills the octets that
\* remain
AddressOf(nums) ==
    IF Len(nums) > 4 \/ \E k \in 1 .. Len(nums) : nums[k][1] < 0 THEN <<>>
    ELSE IF \E k \in 1 .. Len(nums) - 1 : nums[k][1] > 0 \/ nums[k][2] > 255 THEN <<>>
    ELSE IF LastTooLarge(Len(nums), LastOf(nums)) THEN <<>>
    ELSE Dotted([k \in 1 .. Len(nums) - 1 |-> nums[k][2]]
                \o RemainingOctets(Len(nums), LastOf(nums)))

NumbersOf(parts) == [k \in 1 .. Len(parts) |-> ParseIPv4Number(parts[k])]

\* the URL standard's IPv4 parser and serializer
ParseIPv4(h) == AddressOf(NumbersOf(HostParts(h)))

\* the printable ASCII characters, from the blank (byte 32) to the tilde (126);
\* the grave accent (96) is written by its name
Ascii ==
    <<" ", "!", "\"", "#", "$", "%", "&", "'", "(", ")", "*", "+", ",", "-", ".", "/",
      "0", "1", "2", "3", "4", "5", "6", "7", "8", "9", ":", ";", "<", "=", ">", "?",
      "@", "A", "B", "C", "D", "E", "F", "G", "H", "I", "J", "K", "L", "M", "N", "O",
      "P", "Q", "R", "S", "T", "U", "V", "W", "X", "Y", "Z", "[", "\\", "]", "^", "_",
      "grave", "a", "b", "c", "d", "e", "f", "g", "h", "i", "j", "k", "l", "m", "n", "o",
      "p", "q", "r", "s", "t", "u", "v", "w", "x", "y", "z", "{", "|", "}", "~">>

\* the code point of a character of the model's strings
CodePoints ==
    [c \in {Ascii[k] : k \in 1 .. Len(Ascii)} \cup {"\f"} |->
        IF c = "\f" THEN 12 ELSE 31 + CHOOSE k \in 1 .. Len(Ascii) : Ascii[k] = c]

CodeOf(c) == CodePoints[c]

\* the characters of a sequence of printable ASCII code points
Chars(codes) == [i \in 1 .. Len(codes) |-> Ascii[codes[i] - 31]]

\* the URL standard's percent-decode: the bytes of s, where %XY with two
\* hexadecimal digits is the byte XY and every other character its own byte
RECURSIVE PercentDecode(_)
PercentDecode(s) ==
    IF s = <<>> THEN <<>>
    ELSE IF s[1] = "%" /\ Len(s) >= 3 /\ DigitVal(s[2], 16) >= 0
               /\ DigitVal(s[3], 16) >= 0
         THEN <<DigitVal(s[2], 16) * 16 + DigitVal(s[3], 16)>>
                \o PercentDecode(SubSeq(s, 4, Len(s)))
    ELSE <<CodeOf(s[1])>> \o PercentDecode(Tail(s))

\* forbidden host code points (the ones the model's URLs can have)
ForbiddenHostChars == {" ", "#", "/", ":", "<", ">", "?", "@", "[", "\\", "]", "^", "|"}

\* forbidden domain code points: the forbidden host code points, the C0
\* controls, % and DEL
ForbiddenDomainCodes ==
    {CodeOf(c) : c \in ForbiddenHostChars} \cup (0 .. 31) \cup {37, 127}

\* number of bytes of the UTF-8 sequence that the byte b starts, 0 if none
Utf8Length(b) ==
    IF b < 128 THEN 1
    ELSE IF b \in 194 .. 223 THEN 2
    ELSE IF b \in 224 .. 239 THEN 3
    ELSE IF b \in 240 .. 244 THEN 4
    ELSE 0

\* the n bytes from position p on are one well-formed UTF-8 sequence
Utf8Well(bytes, p, n) ==
    /\ n > 0
    /\ p + n - 1 <= Len(bytes)
    /\ \A j \in 1 .. n - 1 : bytes[p + j] \in 128 .. 191
    /\ bytes[p] = 224 => bytes[p + 1] >= 160
    /\ bytes[p] = 237 => bytes[p + 1] <= 159
    /\ bytes[p] = 240 => bytes[p + 1] >= 144
    /\ bytes[p] = 244 => bytes[p + 1] <= 143

\* the bytes from position p on are well-formed UTF-8
RECURSIVE Utf8Valid(_, _)
Utf8Valid(bytes, p) ==
    \/ p > Len(bytes)
    \/ /\ Utf8Well(bytes, p, Utf8Length(bytes[p]))
       /\ Utf8Valid(bytes, p + Utf8Length(bytes[p]))

\* the payload bits of the n - 1 continuation bytes after position p, behind
\* the bits acc of the leading byte
RECURSIVE Utf8Bits(_, _, _, _)
Utf8Bits(bytes, p, n, acc) ==
    IF n = 1 THEN acc
    ELSE Utf8Bits(bytes, p + 1, n - 1, acc * 64 + (bytes[p + 1] - 128))

\* the code point of the well-formed sequence of n bytes at position p
Utf8Point(bytes, p, n) ==
    Utf8Bits(bytes, p, n,
             IF n = 1 THEN bytes[p]
             ELSE IF n = 2 THEN bytes[p] - 192
             ELSE IF n = 3 THEN bytes[p] - 224
             ELSE bytes[p] - 240)

\* UTF-8 decode: the code points of well-formed bytes from position p on
RECURSIVE Utf8Points(_, _)
Utf8Points(bytes, p) ==
    IF p > Len(bytes) THEN <<>>
    ELSE <<Utf8Point(bytes, p, Utf8Length(bytes[p]))>>
           \o Utf8Points(bytes, p + Utf8Length(bytes[p]))

\* the result of a step of domain-to-ASCII that records an error
Failure == <<-1>>

\* the IDNA mapping table of UTS #46 for the code points U+0000 to U+00FF, as
\* domain-to-ASCII of the URL standard uses it (UseSTD3ASCIIRules false,
\* nontransitional): the code points a code point is replaced by, itself when
\* it is valid (the sharp s, a deviation, is kept), none when it is ignored
\* (the soft hyphen), Failure when it is disallowed.  The table ends at
\* U+00FF: domain-to-ASCII of a code point above it is not defined here.
Uts46 ==
    [n \in 0 .. 255 |->
        IF n \in 65 .. 90 THEN <<n + 32>>
        ELSE IF n < 128 THEN <<n>>
        ELSE IF n < 160 THEN Failure
        ELSE IF n = 160 THEN <<32>>
        ELSE IF n = 168 THEN <<32, 776>>
        ELSE IF n = 170 THEN <<97>>
        ELSE IF n = 173 THEN <<>>
        ELSE IF n = 175 THEN <<32, 772>>
        ELSE IF n = 178 THEN <<50>>
        ELSE IF n = 179 THEN <<51>>
        ELSE IF n = 180 THEN <<32, 769>>
        ELSE IF n = 181 THEN <<956>>
        ELSE IF n = 184 THEN <<32, 807>>
        ELSE IF n = 185 THEN <<49>>
        ELSE IF n = 186 THEN <<111>>
        ELSE IF n = 188 THEN <<49, 8260, 52>>
        ELSE IF n = 189 THEN <<49, 8260, 50>>
        ELSE IF n = 190 THEN <<51, 8260, 52>>
        ELSE IF n \in 192 .. 222 /\ n # 215 THEN <<n + 32>>
        ELSE <<n>>]

\* the Map step of UTS #46 on the code points from position p on, behind the
\* code points acc already mapped
RECURSIVE MapFrom(_, _, _)
MapFrom(points, p, acc) ==
    IF p > Len(points) THEN acc
    ELSE IF Uts46[points[p]] = Failure THEN Failure
    ELSE MapFrom(points, p + 1, acc \o Uts46[points[p]])

\* General_Category = Mark, among the code points the table yields (the
\* combining marks U+0300 to U+036F)
IsCombiningMark(n) == n \in 768 .. 879

\* the validity criteria of UTS #46 for a label that was mapped and is in
\* normalization form C, with CheckHyphens false: it does not begin with a
\* combining mark.  (No code point of the table is a joiner or has a
\* right-to-left Bidi class, and the mapped strings are in form C as they
\* are: their combining marks follow a blank.)
IsLabelValid(label) == label = <<>> \/ ~IsCombiningMark(label[1])

\* Punycode (RFC 3492): base 36, tmin 1, tmax 26, skew 38, damp 700,
\* initial bias 72, initial n 128
PunyDigit(b) ==
    IF b \in 97 .. 122 THEN b - 97 ELSE IF b \in 48 .. 57 THEN b - 22 ELSE -1

PunyCode(d) == IF d < 26 THEN 97 + d ELSE 22 + d

Threshold(k, bias) ==
    IF k <= bias THEN 1 ELSE IF k >= bias + 26 THEN 26 ELSE k - bias

RECURSIVE AdaptLoop(_, _)
AdaptLoop(delta, k) ==
    IF delta > 455 THEN AdaptLoop(delta \div 35, k + 36)
    ELSE k + (36 * delta) \div (delta + 38)

Damped(delta, first) == IF first THEN delta \div 700 ELSE delta \div 2

\* bias adaptation
Adapt(delta, numpoints, first) ==
    AdaptLoop(Damped(delta, first) + Damped(delta, first) \div numpoints, 0)

NoDelta == [ok |-> FALSE, i |-> 0, p |-> 0]

\* one generalized variable-length integer of s from position p on, added to
\* i: the new i and the position behind it; no result when the digits end
\* early, a character is no digit or a 32-bit integer overflows
RECURSIVE DeltaAt(_, _, _, _, _, _)
DeltaAt(s, p, i, w, k, bias) ==
    IF p > Len(s) \/ PunyDigit(s[p]) < 0 THEN NoDelta
    ELSE IF PunyDigit(s[p]) > (2147483647 - i) \div w THEN NoDelta
    ELSE IF PunyDigit(s[p]) < Threshold(k, bias)
    THEN [ok |-> TRUE, i |-> i + PunyDigit(s[p]) * w, p |-> p + 1]
    ELSE IF w > 2147483647 \div (36 - Threshold(k, bias)) THEN NoDelta
    ELSE DeltaAt(s, p + 1, i + PunyDigit(s[p]) * w, w * (36 - Threshold(k, bias)),
                 k + 36, bias)

\* out with the code point n put before position i (counted from 0)
InsertAt(out, i, n) == SubSeq(out, 1, i) \o <<n>> \o SubSeq(out, i + 1, Len(out))

NoPoints == [ok |-> FALSE, points |-> <<>>]

RECURSIVE PunyLoop(_, _, _, _, _, _)
RECURSIVE PunyInsert(_, _, _, _, _, _)
\* the decoding loop: the deltas of s from position p on are decoded and
\* their code points inserted into out
PunyLoop(s, p, out, n, i, bias) ==
    IF p > Len(s) THEN [ok |-> TRUE, points |-> out]
    ELSE PunyInsert(s, DeltaAt(s, p, i, 1, 36, bias), out, n, i, bias)

PunyInsert(s, d, out, n, oldi, bias) ==
    IF ~d.ok THEN NoPoints
    ELSE IF d.i \div (Len(out) + 1) > 2147483647 - n THEN NoPoints
    ELSE PunyLoop(s, d.p,
                  InsertAt(out, d.i % (Len(out) + 1), n + d.i \div (Len(out) + 1)),
                  n + d.i \div (Len(out) + 1),
                  (d.i % (Len(out) + 1)) + 1,
                  Adapt(d.i - oldi, Len(out) + 1, oldi = 0))

\* position of the last hyphen of s, 0 if it has none
LastHyphen(s) ==
    IF \E j \in 1 .. Len(s) : s[j] = 45
    THEN CHOOSE j \in 1 .. Len(s) : s[j] = 45 /\ \A k \in j + 1 .. Len(s) : s[k] # 45
    ELSE 0

\* Punycode decoding of the ASCII string s (what follows xn--): the basic
\* code points are the ones before the last hyphen
PunyDecode(s) ==
    IF s = <<>> THEN NoPoints
    ELSE PunyLoop(s, LastHyphen(s) + 1, SubSeq(s, 1, LastHyphen(s) - 1), 128, 0, 72)

\* the generalized variable-length integer of q
RECURSIVE VarInt(_, _, _)
VarInt(q, k, bias) ==
    IF q < Threshold(k, bias) THEN <<PunyCode(q)>>
    ELSE <<PunyCode(Threshold(k, bias)
                      + ((q - Threshold(k, bias)) % (36 - Threshold(k, bias))))>>
           \o VarInt((q - Threshold(k, bias)) \div (36 - Threshold(k, bias)), k + 36, bias)

\* the least code point of the label that is at least n
NextPoint(label, n) ==
    CHOOSE m \in {label[j] : j \in 1 .. Len(label)} :
        m >= n /\ \A j \in 1 .. Len(label) : label[j] >= n => m <= label[j]

RECURSIVE PunyOuter(_, _, _, _, _, _, _)
RECURSIVE PunyInner(_, _, _, _, _, _, _, _)
\* the encoding loop: h code points of the label are handled (b of them
\* basic), the next code point to handle is at least n
PunyOuter(label, out, h, b, n, delta, bias) ==
    IF h >= Len(label) THEN out
    ELSE PunyInner(label, 1, out, h, b, NextPoint(label, n),
                   delta + (NextPoint(label, n) - n) * (h + 1), bias)

PunyInner(label, j, out, h, b, n, delta, bias) ==
    IF j > Len(label) THEN PunyOuter(label, out, h, b, n + 1, delta + 1, bias)
    ELSE IF label[j] < n THEN PunyInner(label, j + 1, out, h, b, n, delta + 1, bias)
    ELSE IF label[j] = n
    THEN PunyInner(label, j + 1, out \o VarInt(delta, 36, bias), h + 1, b, n, 0,
                   Adapt(delta, h + 1, h = b))
    ELSE PunyInner(label, j + 1, out, h, b, n, delta, bias)

\* the basic (ASCII) code points of the label, in order
Basic(label) == SelectSeq(label, LAMBDA c : c < 128)

\* Punycode encoding of the label
PunyEncode(label) ==
    PunyOuter(label,
              Basic(label) \o (IF Basic(label) # <<>> THEN <<45>> ELSE <<>>),
              Len(Basic(label)), Len(Basic(label)), 128, 0, 72)

\* x, n, -, -
AcePrefix == <<120, 110, 45, 45>>

\* the decoded form of a label xn--...: it is not empty, every code point of
\* it is valid and mapped to itself, and it is a valid label.  (The platform
\* takes a label whose decoded form is all ASCII, as xn--abc-.)
DecodedOk(d) ==
    /\ d.ok
    /\ d.points # <<>>
    /\ \A j \in 1 .. Len(d.points) : Uts46[d.points[j]] = <<d.points[j]>>
    /\ IsLabelValid(d.points)

\* one mapped label in ASCII form: an ASCII label as it is (a label xn--...
\* when its decoding is acceptable), another label encoded behind xn--
LabelToAscii(label) ==
    IF Len(label) >= 4 /\ SubSeq(label, 1, 4) = AcePrefix
    THEN IF (\A j \in 1 .. Len(label) : label[j] < 128)
              /\ DecodedOk(PunyDecode(SubSeq(label, 5, Len(label))))
         THEN label ELSE Failure
    ELSE IF \A j \in 1 .. Len(label) : label[j] < 128 THEN label
    ELSE IF IsLabelValid(label) THEN AcePrefix \o PunyEncode(label)
    ELSE Failure

\* first position from p on of a full stop in s, Len(s) + 1 if none
RECURSIVE DotFrom(_, _)
DotFrom(s, p) == IF p > Len(s) \/ s[p] = 46 THEN p ELSE DotFrom(s, p + 1)

\* label, separator and the labels after it, or Failure
Joined(label, dot, rest) ==
    IF label = Failure \/ rest = Failure THEN Failure ELSE label \o dot \o rest

\* the labels of the mapped domain s from position p on, each in ASCII form
RECURSIVE LabelsFrom(_, _)
LabelsFrom(s, p) ==
    IF p > Len(s) THEN <<>>
    ELSE IF DotFrom(s, p) > Len(s)
    THEN LabelToAscii(SubSeq(s, p, Len(s)))
    ELSE Joined(LabelToAscii(SubSeq(s, p, DotFrom(s, p) - 1)), <<46>>,
                LabelsFrom(s, DotFrom(s, p) + 1))

\* the labels of a mapped domain, each in ASCII form
MappedToAscii(mapped) ==
    IF mapped = Failure THEN Failure ELSE LabelsFrom(mapped, 1)

\* the URL standard's domain to ASCII (UTS #46 ToASCII): map, split into
\* labels at the full stops, convert each label
DomainToAscii(points) == MappedToAscii(MapFrom(points, 1, <<>>))

NoHost == [ok |-> FALSE, host |-> <<>>]

AddressHost(address) == [ok |-> address # <<>>, host |-> address]

\* number of hexadecimal digits of s from position p on, four at most
RECURSIVE HexRun(_, _, _)
HexRun(s, p, n) ==
    IF n < 4 /\ p + n <= Len(s) /\ DigitVal(s[p + n], 16) >= 0
    THEN HexRun(s, p, n + 1) ELSE n

\* the value of the n hexadecimal digits of s from position p on
RECURSIVE HexValue(_, _, _)
HexValue(s, p, n) ==
    IF n = 0 THEN 0 ELSE HexValue(s, p, n - 1) * 16 + DigitVal(s[p + n - 1], 16)

\* number of decimal digits of s from position p on
RECURSIVE DigitRun(_, _, _)
DigitRun(s, p, n) ==
    IF p + n <= Len(s) /\ IsDigit(s[p + n]) THEN DigitRun(s, p, n + 1) ELSE n

\* the value of the n decimal digits of s from position p on
RECURSIVE DecValue(_, _, _)
DecValue(s, p, n) ==
    IF n = 0 THEN 0 ELSE DecValue(s, p, n - 1) * 10 + DigitVal(s[p + n - 1], 10)

\* an IPv6 address is eight 16-bit pieces; <<>> stands for failure
NoPieces == <<0, 0, 0, 0, 0, 0, 0, 0>>

\* address[pieceIndex] = v, pieceIndex counted from 0
SetPiece(address, pieceIndex, v) == [address EXCEPT ![pieceIndex + 1] = v]

\* the end of the IPv6 parser: the pieces read after the :: are moved to the
\* end of the address; without a :: all eight pieces must have been read
Finish6(address, pieceIndex, compress) ==
    IF compress >= 0
    THEN [k \in 1 .. 8 |->
            IF k <= compress THEN address[k]
            ELSE IF k > 8 - (pieceIndex - compress) THEN address[k - (8 - pieceIndex)]
            ELSE 0]
    ELSE IF pieceIndex # 8 THEN <<>>
    ELSE address

\* the IPv6 parser inside an embedded IPv4 address, numbersSeen numbers read:
\* four numbers up to 255 without leading zeros, separated by dots, fill two
\* pieces
RECURSIVE Quad6(_, _, _, _, _, _)
QuadValue(s, p, n, address, pieceIndex, compress, numbersSeen) ==
    IF (n > 1 /\ s[p] = "0") \/ n > 3 THEN <<>>
    ELSE IF DecValue(s, p, n) > 255 THEN <<>>
    ELSE Quad6(s, p + n,
               SetPiece(address, pieceIndex,
                        address[pieceIndex + 1] * 256 + DecValue(s, p, n)),
               IF numbersSeen + 1 \in {2, 4} THEN pieceIndex + 1 ELSE pieceIndex,
               compress, numbersSeen + 1)

QuadNumber(s, p, address, pieceIndex, compress, numbersSeen) ==
    IF p > Len(s) \/ ~IsDigit(s[p]) THEN <<>>
    ELSE QuadValue(s, p, DigitRun(s, p, 0), address, pieceIndex, compress, numbersSeen)

Quad6(s, p, address, pieceIndex, compress, numbersSeen) ==
    IF p > Len(s)
    THEN IF numbersSeen # 4 THEN <<>> ELSE Finish6(address, pieceIndex, compress)
    ELSE IF numbersSeen > 0 /\ ~(s[p] = "." /\ numbersSeen < 4) THEN <<>>
    ELSE QuadNumber(s, IF numbersSeen > 0 THEN p + 1 ELSE p, address, pieceIndex,
                    compress, numbersSeen)

\* the main loop of the IPv6 parser at position p: a colon is the ::, of which
\* there is one at most; else a piece of up to four hexadecimal digits follows,
\* ended by a colon with more behind it, by the end of the input, or by the
\* dot of an embedded IPv4 address, which starts with these digits
RECURSIVE Pieces6(_, _, _, _, _)
Piece6(s, p, n, address, pieceIndex, compress) ==
    IF p + n > Len(s)
    THEN Pieces6(s, p + n, SetPiece(address, pieceIndex, HexValue(s, p, n)),
                 pieceIndex + 1, compress)
    ELSE IF s[p + n] = "."
    THEN IF n = 0 \/ pieceIndex > 6 THEN <<>>
         ELSE Quad6(s, p, address, pieceIndex, compress, 0)
    ELSE IF s[p + n] = ":"
    THEN IF p + n + 1 > Len(s) THEN <<>>
         ELSE Pieces6(s, p + n + 1, SetPiece(address, pieceIndex, HexValue(s, p, n)),
                      pieceIndex + 1, compress)
    ELSE <<>>

Pieces6(s, p, address, pieceIndex, compress) ==
    IF p > Len(s) THEN Finish6(address, pieceIndex, compress)
    ELSE IF pieceIndex = 8 THEN <<>>
    ELSE IF s[p] = ":"
    THEN IF compress >= 0 THEN <<>>
         ELSE Pieces6(s, p + 1, address, pieceIndex + 1, pieceIndex + 1)
    ELSE Piece6(s, p, HexRun(s, p, 0), address, pieceIndex, compress)

\* the URL standard's IPv6 parser: the eight pieces, <<>> on failure
ParseIPv6(s) ==
    IF s # <<>> /\ s[1] = ":"
    THEN IF Len(s) < 2 \/ s[2] # ":" THEN <<>>
         ELSE Pieces6(s, 3, NoPieces, 1, 1)
    ELSE Pieces6(s, 1, NoPieces, 0, -1)

HexDigits == <<"0", "1", "2", "3", "4", "5", "6", "7", "8", "9",
               "a", "b", "c", "d", "e", "f">>

\* a piece in lower-case hexadecimal, without leading zeros
RECURSIVE Hex(_)
Hex(n) ==
    IF n < 16 THEN <<HexDigits[n + 1]>>
    ELSE Hex(n \div 16) \o <<HexDigits[(n % 16) + 1]>>

\* number of pieces that are 0 from piece k on
RECURSIVE ZeroRun(_, _)
ZeroRun(address, k) ==
    IF k <= 8 /\ address[k] = 0 THEN 1 + ZeroRun(address, k + 1) ELSE 0

LongestZeroRun(address) ==
    CHOOSE n \in 0 .. 8 :
        /\ \E k \in 1 .. 8 : ZeroRun(address, k) = n
        /\ \A k \in 1 .. 8 : ZeroRun(address, k) <= n

\* where the first longest run of two or more pieces that are 0 starts, 0 if
\* there is none
CompressStart(address, longest) ==
    IF longest < 2 THEN 0
    ELSE CHOOSE k \in 1 .. 8 :
            /\ ZeroRun(address, k) = longest
            /\ \A j \in 1 .. k - 1 : ZeroRun(address, j) < longest

\* the pieces from .. to, separated by colons
RECURSIVE JoinHex(_, _, _)
JoinHex(address, from, to) ==
    IF from > to THEN <<>>
    ELSE IF from = to THEN Hex(address[from])
    ELSE Hex(address[from]) \o <<":">> \o JoinHex(address, from + 1, to)

Serialize6(address, start, longest) ==
    IF start = 0 THEN JoinHex(address, 1, 8)
    ELSE JoinHex(address, 1, start - 1) \o <<":", ":">>
           \o JoinHex(address, start + longest, 8)

\* the URL standard's IPv6 serializer
SerializeIPv6(address) ==
    Serialize6(address, CompressStart(address, LongestZeroRun(address)),
               LongestZeroRun(address))

\* the host of an IPv6 literal is the serialized address in brackets
Host6(address) ==
    IF address = <<>> THEN NoHost
    ELSE [ok |-> TRUE, host |-> <<"[">> \o SerializeIPv6(address) \o <<"]">>]

\* an ASCII domain that holds no forbidden character: when it ends in a
\* number it is an IPv4 address
NumberOrName(domain) ==
    IF EndsInNumber(domain) THEN AddressHost(ParseIPv4(domain))
    ELSE [ok |-> TRUE, host |-> domain]

\* the result of domain to ASCII as a host: it is not empty and holds no
\* forbidden domain code point
AsciiHost(domain) ==
    IF domain = Failure \/ domain = <<>> THEN NoHost
    ELSE IF \E j \in 1 .. Len(domain) : domain[j] \in ForbiddenDomainCodes THEN NoHost
    ELSE NumberOrName(Chars(domain))

\* the host of a special scheme, from its percent-decoded bytes: they are
\* decoded as UTF-8 and the domain is brought to ASCII
DomainHost(bytes) ==
    IF ~Utf8Valid(bytes, 1) THEN NoHost
    ELSE AsciiHost(DomainToAscii(Utf8Points(bytes, 1)))

\* an opaque host: its C0 controls are percent-encoded
RECURSIVE OpaqueHost(_)
OpaqueHost(h) ==
    IF h = <<>> THEN <<>>
    ELSE (IF h[1] = "\f" THEN <<"%", "0", "C">> ELSE <<h[1]>>) \o OpaqueHost(Tail(h))

\* the URL standard's host parser: the serialized host, or ok = FALSE.  A host
\* that starts with a bracket is an IPv6 literal; the host of a scheme that is
\* not special is opaque; the host of a special scheme is percent-decoded and
\* brought to ASCII.
ParseHost(h, special) ==
    IF h # <<>> /\ h[1] = "["
    THEN IF h[Len(h)] # "]" THEN NoHost
         ELSE Host6(ParseIPv6(SubSeq(h, 2, Len(h) - 1)))
    ELSE IF ~special
    THEN IF \E j \in 1 .. Len(h) : h[j] \in ForbiddenHostChars THEN NoHost
         ELSE [ok |-> TRUE, host |-> OpaqueHost(h)]
    ELSE DomainHost(PercentDecode(h))

\* first position in s of a character of the set cs, Len(s) + 1 if none
FirstOf(s, cs) ==
    LET hits == {j \in 1 .. Len(s) : s[j] \in cs}
    IN IF hits = {} THEN Len(s) + 1 ELSE CHOOSE j \in hits : \A k \in hits : j <= k

\* last position in s of a character of the set cs, 0 if none
LastPos(s, cs) ==
    LET hits == {j \in 1 .. Len(s) : s[j] \in cs}
    IN IF hits = {} THEN 0 ELSE CHOOSE j \in hits : \A k \in hits : k <= j

\* host:port split at the colon: the port is made of digits below 65536, and
\* the host is not empty for a special scheme, after credentials or before a
\* port
HostAndPort(hostport, colon, credentials, special) ==
    IF colon < Len(hostport)
          /\ NumIn(SubSeq(hostport, colon + 1, Len(hostport)), 10, <<0, 0>>)[1] # 0
    THEN NoHost
    ELSE IF colon = 1 /\ (special \/ credentials \/ colon <= Len(hostport))
         THEN NoHost
    ELSE ParseHost(SubSeq(hostport, 1, colon - 1), special)

\* the port follows the first colon after the closing bracket, if there is one
AfterCredentials(hostport, close, credentials, special) ==
    IF close > Len(hostport) THEN NoHost
    ELSE HostAndPort(hostport,
                     close + FirstOf(SubSeq(hostport, close + 1, Len(hostport)), {":"}),
                     credentials, special)

\* the authority user:password@host:port of a URL: credentials end at the last
\* @
ParseAuthority(auth, special) ==
    AfterCredentials(SubSeq(auth, LastPos(auth, {"@"}) + 1, Len(auth)),
                     IF LastPos(auth, {"@"}) < Len(auth)
                           /\ auth[LastPos(auth, {"@"}) + 1] = "["
                     THEN FirstOf(SubSeq(auth, LastPos(auth, {"@"}) + 1, Len(auth)), {"]"})
                     ELSE 0,
                     LastPos(auth, {"@"}) > 0, special)

SpecialSchemes == {<<"h", "t", "t", "p">>, <<"h", "t", "t", "p", "s">>,
                   <<"f", "t", "p">>, <<"w", "s">>, <<"w", "s", "s">>}

FileScheme == <<"f", "i", "l", "e">>

NoURL == [ok |-> FALSE, protocol |-> <<>>, hostname |-> <<>>]

\* the URL of a scheme and a parsed host
Located(scheme, parsed) ==
    IF parsed.ok
    THEN [ok |-> TRUE, protocol |-> scheme \o <<":">>, hostname |-> parsed.host]
    ELSE NoURL

\* the part of s before the first character of the set cs
Before1(s, cs) == SubSeq(s, 1, FirstOf(s, cs) - 1)

\* s without its leading characters of the set cs
Without(s, cs) ==
    SubSeq(s, FirstOf(s, {s[j] : j \in 1 .. Len(s)} \ cs), Len(s))

\* a Windows drive letter where the host of a file URL is expected: the URL
\* has no host and the letter starts its path
IsDriveLetter(buffer) ==
    Len(buffer) = 2 /\ IsAlpha(buffer[1]) /\ buffer[2] \in {":", "|"}

\* the host of a file URL: localhost is the empty host
FileHost(parsed) ==
    IF parsed.ok /\ parsed.host = <<"l", "o", "c", "a", "l", "h", "o", "s", "t">>
    THEN [ok |-> TRUE, host |-> <<>>]
    ELSE parsed

\* what follows scheme: in a URL.  http, https, ftp, ws and wss take any number
\* of slashes before the authority and need a host; file takes a host after
\* two slashes; another scheme has an authority only after two slashes.
AfterScheme(scheme, rest) ==
    IF scheme \in SpecialSchemes
    THEN Located(scheme,
                 ParseAuthority(Before1(Without(rest, {"/", "\\"}), {"/", "\\", "?", "#"}),
                                TRUE))
    ELSE IF scheme = FileScheme
    THEN IF ~(Len(rest) >= 2 /\ rest[1] \in {"/", "\\"} /\ rest[2] \in {"/", "\\"})
            \/ Before1(SubSeq(rest, 3, Len(rest)), {"/", "\\", "?", "#"}) = <<>>
            \/ IsDriveLetter(Before1(SubSeq(rest, 3, Len(rest)), {"/", "\\", "?", "#"}))
         THEN [ok |-> TRUE, protocol |-> scheme \o <<":">>, hostname |-> <<>>]
         ELSE Located(scheme,
                      FileHost(ParseHost(Before1(SubSeq(rest, 3, Len(rest)),
                                                 {"/", "\\", "?", "#"}),
                                         TRUE)))
    ELSE IF ~(Len(rest) >= 2 /\ rest[1] = "/" /\ rest[2] = "/")
         THEN [ok |-> TRUE, protocol |-> scheme \o <<":">>, hostname |-> <<>>]
    ELSE Located(scheme,
                 ParseAuthority(Before1(SubSeq(rest, 3, Len(rest)), {"/", "?", "#"}),
                                FALSE))

\* a scheme is a letter followed by letters, digits, +, - or . up to the first
\* colon
SchemeEnd(input, colon) ==
    IF input = <<>> \/ colon > Len(input) \/ colon = 1 THEN NoURL
    ELSE IF ~IsAlpha(input[1]) THEN NoURL
    ELSE IF \E j \in 2 .. colon - 1 :
               ~(IsAlpha(input[j]) \/ IsDigit(input[j]) \/ input[j] \in {"+", "-", "."})
         THEN NoURL
    ELSE AfterScheme(ToLower(SubSeq(input, 1, colon - 1)),
                     SubSeq(input, colon + 1, Len(input)))

\* C0 control or space, among the characters a string of the model can hold
ControlOrSpace == {" ", "\t", "\n", "\r", "\f"}

\* s without the C0 controls and blanks around it
Trimmed(s) ==
    SubSeq(s, FirstOf(s, {s[j] : j \in 1 .. Len(s)} \ ControlOrSpace),
              LastPos(s, {s[j] : j \in 1 .. Len(s)} \ ControlOrSpace))

\* s without its ASCII tabs and newlines
Untabbed(s) == SelectSeq(s, LAMBDA c : c \notin {"\t", "\n", "\r"})

Parsed(input) == SchemeEnd(input, FirstOf(input, {":"}))

\* new URL(url) of the platform, without a base: the protocol and the hostname,
\* or ok = FALSE where the constructor throws a TypeError
NewURL(url) == Parsed(Untabbed(Trimmed(url)))

\* /^(\d{1,3}\.){3}\d{1,3}$/
LooksLikeIPv4(h) ==
    LET parts == SplitOn(h, ".") IN
    /\ Len(parts) = 4
    /\ \A k \in 1 .. 4 : /\ Len(parts[k]) \in 1 .. 3
                         /\ \A j \in 1 .. Len(parts[k]) : IsDigit(parts[k][j])

\* /^[\da-f:]+$/
LooksLikeIPv6(h) ==
    /\ Len(h) >= 1
    /\ \A j \in 1 .. Len(h) : IsDigit(h[j]) \/ h[j] \in {"a", "b", "c", "d", "e", "f", ":"}

\* a slip: of 172.16.0.0/12 only 172.16.x.x is matched
MatchesBlockedPatternNarrow(h) ==
    \/ StartsWith(h, <<"1", "2", "7", ".">>)
    \/ StartsWith(h, <<"1", "0", ".">>)
    \/ StartsWith(h, <<"1", "7", "2", ".", "1", "6", ".">>)
    \/ StartsWith(h, <<"1", "9", "2", ".", "1", "6", "8", ".">>)
    \/ StartsWith(h, <<"1", "6", "9", ".", "2", "5", "4", ".">>)
    \/ h = <<":", ":", "1">>
    \/ StartsWith(h, <<"f", "e", "8", "0", ":">>)
    \/ StartsWith(h, <<"f", "c", "0", "0", ":">>)
    \/ StartsWith(h, <<"f", "d", "0", "0", ":">>)

\* some pattern of BLOCKED_IP_PATTERNS matches the host name
MatchesBlockedPattern(h) ==
    \/ StartsWith(h, <<"1", "2", "7", ".">>)
    \/ StartsWith(h, <<"1", "0", ".">>)
    \/ /\ StartsWith(h, <<"1", "7", "2", ".">>)
       /\ Len(h) >= 7
       /\ \/ h[5] = "1" /\ h[6] \in {"6", "7", "8", "9"}
          \/ h[5] = "2" /\ IsDigit(h[6])
          \/ h[5] = "3" /\ h[6] \in {"0", "1"}
       /\ h[7] = "."
    \/ StartsWith(h, <<"1", "9", "2", ".", "1", "6", "8", ".">>)
    \/ StartsWith(h, <<"1", "6", "9", ".", "2", "5", "4", ".">>)
    \/ h = <<":", ":", "1">>
    \/ StartsWith(h, <<"f", "e", "8", "0", ":">>)
    \/ StartsWith(h, <<"f", "c", "0", "0", ":">>)
    \/ StartsWith(h, <<"f", "d", "0", "0", ":">>)

\* the checks of validateUrl on the parsed URL, in the order of the code
Checked(hostname, protocol, allowed) ==
    IF (LooksLikeIPv4(hostname) \/ LooksLikeIPv6(hostname))
          /\ MatchesBlockedPattern(hostname)
    THEN "blocked"
    ELSE IF Len(allowed) > 0
              /\ ~\E k \in 1 .. Len(allowed) :
                     \/ hostname = allowed[k]
                     \/ EndsWith(hostname, <<".">> \o allowed[k])
         THEN "blocked"
    ELSE IF protocol \notin {<<"h", "t", "t", "p", ":">>,
                             <<"h", "t", "t", "p", "s", ":">>}
         THEN "blocked"
    ELSE "ok"

\* the catch of validateUrl: a TypeError of the constructor becomes "Invalid
\* URL format"
Caught(urlObj, allowed) ==
    IF ~urlObj.ok THEN "invalid"
    ELSE Checked(ToLower(urlObj.hostname), urlObj.protocol, allowed)

\* validateUrl(url) with ALLOWED_DOMAINS = allowed: "ok" when it returns,
\* "blocked" when it throws an error whose message starts with the no-entry
\* sign, "invalid" when it throws "Invalid URL format"
validateUrl(url, allowed) == Caught(NewURL(url), allowed)

-----------------------------------------------------------------------------
(* Safe content fetcher: the per-user rate limiter *)

RATE_LIMIT_REQUESTS == 10

RATE_LIMIT_WINDOW == 60000

Users == {"u1", "u2"}

\* Map.prototype.set
MapSet(m, k, v) == [x \in DOMAIN m \cup {k} |-> IF x = k THEN v ELSE m[x]]

\* a slip: the comparison lets an eleventh request through
checkRateLimitOffByOne(counts, userId, t) ==
    IF userId \in DOMAIN counts /\ counts[userId].resetTime > t
    THEN IF counts[userId].count > RATE_LIMIT_REQUESTS
         THEN [throws |-> TRUE, counts |-> counts]
         ELSE [throws |-> FALSE,
               counts |-> [counts EXCEPT ![userId].count = @ + 1]]
    ELSE [throws |-> FALSE,
          counts |-> MapSet(counts, userId,
                            [count |-> 1, resetTime |-> t + RATE_LIMIT_WINDOW])]

\* a slip: an expired window is reopened with its old reset time
checkRateLimitStaleReset(counts, userId, t) ==
    IF userId \in DOMAIN counts /\ counts[userId].resetTime > t
    THEN IF counts[userId].count >= RATE_LIMIT_REQUESTS
         THEN [throws |-> TRUE, counts |-> counts]
         ELSE [throws |-> FALSE,
               counts |-> [counts EXCEPT ![userId].count = @ + 1]]
    ELSE [throws |-> FALSE,
          counts |-> MapSet(counts, userId,
                            [count |-> 1,
                             resetTime |-> IF userId \in DOMAIN counts
                                           THEN counts[userId].resetTime
                                           ELSE t + RATE_LIMIT_WINDOW])]

\* checkRateLimit(userId) at Date.now() = t on the Map counts: whether it
\* throws the rate-limit error, and the Map it leaves
checkRateLimit(counts, userId, t) ==
    IF userId \in DOMAIN counts /\ counts[userId].resetTime > t
    THEN IF counts[userId].count >= RATE_LIMIT_REQUESTS
         THEN [throws |-> TRUE, counts |-> counts]
         ELSE [throws |-> FALSE,
               counts |-> [counts EXCEPT ![userId].count = @ + 1]]
    ELSE [throws |-> FALSE,
          counts |-> MapSet(counts, userId,
                            [count |-> 1, resetTime |-> t + RATE_LIMIT_WINDOW])]

\* checkRateLimit as extractContentFromUrl calls it: after validateUrl
\* returned, and only with a userId
Limited(valid, userId, counts, t) ==
    IF valid = "ok" /\ userId # NoUser THEN checkRateLimit(counts, userId, t)
    ELSE [throws |-> FALSE, counts |-> counts]

AdmissionOf(valid, limit) ==
    [error |-> IF valid # "ok" THEN valid
               ELSE IF limit.throws THEN "ratelimited" ELSE "none",
     counts |-> limit.counts]

\* extractContentFromUrl(url, userId) up to its first await, at Date.now() = t
\* on the Map counts with ALLOWED_DOMAINS = allowed: the error validateUrl or
\* checkRateLimit throws ("none" if neither does) and the Map that is left
Admission(url, userId, counts, t, allowed) ==
    AdmissionOf(validateUrl(url, allowed),
                Limited(validateUrl(url, allowed), userId, counts, t))

\* what the fetch of an indexContent call can resolve with: nothing when it
\* threw a security error; the empty text when the URL is malformed
Fetchable(fetchError, extractedContent) ==
    /\ fetchError \notin {"blocked", "ratelimited"}
    /\ fetchError = "invalid" => extractedContent = EmptyStr

\* number of windows the clock is followed over
MaxWindows == 1

\* the instants at which the clock is observed: the last millisecond of a
\* window and the first of the next
TimePoints ==
    {t \in {k * RATE_LIMIT_WINDOW + d : k \in 0 .. MaxWindows, d \in {-1, 0}} : t >= 0}

\* time passes
Tick ==
    /\ \E t \in TimePoints : t > now /\ now' = t
    /\ UNCHANGED <<userRequestCounts, admitLog, rejectedAt>>
    /\ UNCHANGED exceptRate

\* the user whose fetches the history variables follow
Watched == "u1"

\* the admitted fetches that are remembered: one more than the quota
LogAdmit(log, t) ==
    LET all == Append(log, t) IN
    IF Len(all) > RATE_LIMIT_REQUESTS + 1 THEN Tail(all) ELSE all

RateUrls == {UrlPublic, UrlLoopback, UrlGarbage}

\* extractContentFromUrl(url, userId) up to its first await: validateUrl, then
\* checkRateLimit when a userId is given.  What follows (Twitter or web page
\* retrieval) reads and writes nothing of the limiter.
RateFetch(url, userId) ==
    LET valid == validateUrl(url, env.allowed)
        limit == IF valid = "ok" /\ userId # NoUser
                 THEN checkRateLimit(userRequestCounts, userId, now)
                 ELSE [throws |-> FALSE, counts |-> userRequestCounts]
        outcome == IF valid # "ok" THEN valid
                   ELSE IF limit.throws THEN "ratelimited" ELSE "admitted"
    IN /\ userRequestCounts' = limit.counts
       /\ admitLog' = IF outcome = "admitted" /\ userId = Watched
                      THEN LogAdmit(admitLog, now) ELSE admitLog
       /\ rejectedAt' = IF outcome = "ratelimited" /\ userId = Watched
                        THEN now ELSE rejectedAt
       /\ UNCHANGED now
       /\ UNCHANGED exceptRate

InitRate ==
    IdleChunk /\ IdleEmbed /\ IdleRate /\ IdleFetch /\ IdleRag /\ IdleProbe /\ IdleDocs

NextRate ==
    \/ Tick
    \/ \E url \in RateUrls, userId \in Users \cup {NoUser} : RateFetch(url, userId)

SpecRate == InitRate /\ [][NextRate]_vars

\* the logged admitted fetches that fall into the window the entry describes
InCurrentWindow ==
    {i \in 1 .. Len(admitLog) :
        admitLog[i] >= userRequestCounts[Watched].resetTime - RATE_LIMIT_WINDOW}

\* C2 as claimed: no interval shorter than the window length holds more than
\* RATE_LIMIT_REQUESTS admitted fetches of one user (the eleven most recent
\* admitted fetches never lie less than 60 seconds apart).
C2_RollingWindow ==
    Len(admitLog) = RATE_LIMIT_REQUESTS + 1 =>
        admitLog[RATE_LIMIT_REQUESTS + 1] - admitLog[1] >= RATE_LIMIT_WINDOW

\* C2 amended: the limit holds per fixed window.  The window opened by the
\* first fetch admitted after the previous window expired holds at most
\* RATE_LIMIT_REQUESTS admitted fetches, the stored count is their number, and
\* a fetch is rejected only inside a window that already holds that many.
C2_FixedWindow ==
    Watched \in DOMAIN userRequestCounts =>
        /\ Cardinality(InCurrentWindow) <= RATE_LIMIT_REQUESTS
        /\ userRequestCounts[Watched].count = Cardinality(InCurrentWindow)
        /\ (rejectedAt >= userRequestCounts[Watched].resetTime - RATE_LIMIT_WINDOW
              => Cardinality(InCurrentWindow) = RATE_LIMIT_REQUESTS)

\* the quota of a window is used up and a further fetch has been rejected
C2_Witness ==
    /\ Watched \in DOMAIN userRequestCounts
    /\ userRequestCounts[Watched].count = RATE_LIMIT_REQUESTS
    /\ rejectedAt = RATE_LIMIT_WINDOW - 1
    /\ admitLog[1] = 0

\* Watched was rejected after its last admitted fetch
RejectionPending ==
    /\ rejectedAt >= 0
    /\ admitLog # <<>>
    /\ rejectedAt >= admitLog[Len(admitLog)]

\* C3: rejections happen only before the reset time of the window; for a
\* rejected user the first fetch at or after the reset time is admitted and
\* leaves the entry {count 1, resetTime that fetch + 60 s}; the reset time
\* is never more than one window ahead of the clock, so no user stays
\* locked out.
C3_Recovery ==
    /\ [](\A u \in DOMAIN userRequestCounts :
            userRequestCounts[u].resetTime <= now + RATE_LIMIT_WINDOW)
    /\ [](rejectedAt >= 0 =>
            /\ Watched \in DOMAIN userRequestCounts
            /\ rejectedAt < userRequestCounts[Watched].resetTime)
    /\ [][(/\ RejectionPending
           /\ userRequestCounts[Watched].resetTime <= now
           /\ (admitLog' # admitLog \/ rejectedAt' # rejectedAt))
          => /\ rejectedAt' = rejectedAt
             /\ admitLog' = LogAdmit(admitLog, now)
             /\ userRequestCounts'[Watched] =
                    [count |-> 1, resetTime |-> now + RATE_LIMIT_WINDOW]]_vars

\* a user rejected in the last millisecond of its window has been admitted at
\* the reset time and holds a fresh window
C3_Witness ==
    /\ rejectedAt = RATE_LIMIT_WINDOW - 1
    /\ admitLog # <<>>
    /\ admitLog[Len(admitLog)] = RATE_LIMIT_WINDOW
    /\ userRequestCounts[Watched] =
           [count |-> 1, resetTime |-> 2 * RATE_LIMIT_WINDOW]

\* the entry of user u in the limiter's Map, <<>> when there is none
EntryOf(counts, u) == IF u \in DOMAIN counts THEN counts[u] ELSE <<>>

\* C29: the frame of the rate-limit state.  The entry of a user changes only
\* on a step that is an admitted fetch of that user: the Map after the step is
\* the one checkRateLimit leaves for that user at that instant, without the
\* error, so the entries of all other users are what they were; for the
\* watched user that step is logged as an admitted fetch with a valid URL,
\* and a step that logs none (a fetch rejected by validation or by the
\* limiter, without userId, of another user, the passing of time) leaves the
\* entry unchanged.  Every stored count is between 1 and RATE_LIMIT_REQUESTS.
C29_RateLimitFrame ==
    /\ [](\A u \in DOMAIN userRequestCounts :
            userRequestCounts[u].count \in 1 .. RATE_LIMIT_REQUESTS)
    /\ [][\A u \in Users :
            EntryOf(userRequestCounts', u) # EntryOf(userRequestCounts, u) =>
                /\ now' = now
                /\ ~checkRateLimit(userRequestCounts, u, now).throws
                /\ userRequestCounts' = checkRateLimit(userRequestCounts, u, now).counts
                /\ \A v \in Users \ {u} :
                      EntryOf(userRequestCounts', v) = EntryOf(userRequestCounts, v)
                /\ u = Watched =>
                      /\ admitLog' = LogAdmit(admitLog, now)
                      /\ admitLog' # admitLog
                      /\ rejectedAt' = rejectedAt]_vars

\* the watched user has used up its quota and was rejected in the last
\* millisecond of its window, and another user opened a window at that
\* instant: the entry of the watched user still holds the count of the quota
C29_Witness ==
    /\ Watched \in DOMAIN userRequestCounts
    /\ userRequestCounts[Watched] =
           [count |-> RATE_LIMIT_REQUESTS, resetTime |-> RATE_LIMIT_WINDOW]
    /\ rejectedAt = RATE_LIMIT_WINDOW - 1
    /\ "u2" \in DOMAIN userRequestCounts
    /\ userRequestCounts["u2"].resetTime = 2 * RATE_LIMIT_WINDOW - 1

-----------------------------------------------------------------------------
(* Safe content fetcher: retrieval with retry, Twitter and web extraction *)

maxRetries == 3

baseDelay == 1000

\* content.substring(0, 15000)
ContentLimit == 15000

RECURSIVE Pow2(_)
Pow2(n) == IF n = 0 THEN 1 ELSE 2 * Pow2(n - 1)

\* a slip: every 4xx status is retried like any other error
fetchWithRetryRetriesClientErrors(o, attempt) ==
    IF o.ok THEN "resolve"
    ELSE IF attempt = maxRetries - 1 THEN "throw"
    ELSE "retry"

\* one round of the loop of fetchWithRetry, for the outcome o of axios.get in
\* attempt number attempt (counted from 0): a response resolves the call; in
\* the catch block an HTTP 4xx other than 429 is thrown at once, the error of
\* the last attempt is thrown, every other error is followed by a wait and a
\* further attempt.  status = 0 stands for error.response?.status undefined.
fetchWithRetry(o, attempt) ==
    IF o.ok THEN "resolve"
    ELSE IF o.isAxios /\ o.status # 0 /\ o.status >= 400 /\ o.status < 500
                 /\ o.status # 429
         THEN "throw"
    ELSE IF attempt = maxRetries - 1 THEN "throw"
    ELSE "retry"

\* \w of the regular expression: a letter, a digit or _
IsWord(c) == IsDigit(c) \/ IsAlpha(c) \/ c = "_"

\* url.match(/(?:twitter\.com|x\.com)\/\w+\/status\/(\d+)/): the digits of the
\* first match, <<>> for null
extractTweetId(url) ==
    LET After(host) ==
            {i + Len(host) : i \in {j \in 1 .. Len(url) - Len(host) + 1 :
                                       SubSeq(url, j, j + Len(host) - 1) = host}}
        slashes == After(<<"t", "w", "i", "t", "t", "e", "r", ".", "c", "o", "m">>)
                     \cup After(<<"x", ".", "c", "o", "m">>)
        \* e is the position of the "/" after the host, k the "/" after \w+
        Match(e) ==
            LET k == IndexFrom(url, <<"/">>, e + 1) IN
            /\ e <= Len(url) /\ url[e] = "/"
            /\ k > e + 1
            /\ \A j \in e + 1 .. k - 1 : IsWord(url[j])
            /\ k + 8 <= Len(url)
            /\ SubSeq(url, k, k + 7) = <<"/", "s", "t", "a", "t", "u", "s", "/">>
            /\ IsDigit(url[k + 8])
        starts == {e \in slashes : Match(e)}
    IN IF starts = {} THEN <<>>
       ELSE LET e == CHOOSE x \in starts : \A y \in starts : x <= y
                d == IndexFrom(url, <<"/">>, e + 1) + 8
                RECURSIVE Digits(_)
                Digits(j) == IF j <= Len(url) /\ IsDigit(url[j])
                             THEN <<url[j]>> \o Digits(j + 1) ELSE <<>>
            IN Digits(d)

\* content.replace(/\s+/g, ' ')
RECURSIVE CollapseWs(_)
CollapseWs(s) ==
    IF s = <<>> THEN s
    ELSE IF IsWs(s[1][1]) THEN <<Ch(" ")>> \o CollapseWs(TrimStart(s))
    ELSE <<s[1]>> \o CollapseWs(Tail(s))

\* content.replace(/\n+/g, '\n')
RECURSIVE CollapseNewlines(_)
CollapseNewlines(s) ==
    IF s = <<>> THEN s
    ELSE IF s[1][1] = "\n"
         THEN LET RECURSIVE Skip(_)
                  Skip(t) == IF t # <<>> /\ t[1][1] = "\n" THEN Skip(Tail(t)) ELSE t
              IN <<Ch("\n")>> \o CollapseNewlines(Skip(s))
    ELSE <<s[1]>> \o CollapseNewlines(Tail(s))

\* String.prototype.substring(0, n)
RECURSIVE Substring(_, _)
Substring(s, n) ==
    IF s = <<>> \/ n <= 0 THEN <<>>
    ELSE IF s[1][2] >= n THEN <<Run(s[1][1], n)>>
    ELSE <<s[1]>> \o Substring(Tail(s), n - s[1][2])

\* a || b || ... on strings: the first non-empty one, '' if none
RECURSIVE FirstNonEmpty(_)
FirstNonEmpty(ss) ==
    IF ss = <<>> THEN EmptyStr
    ELSE IF StrLen(ss[1]) > 0 THEN ss[1] ELSE FirstNonEmpty(Tail(ss))

\* the documents a server can answer with
Pages == {"article", "bodyonly", "blank", "broken"}

\* whether cheerio.load(response.data) returns
PageLoads(page) == page # "broken"

\* the texts of $('article'), $('main'), $('.post-content'),
\* $('.article-content'), $('.content'), $('body') once the unwanted elements
\* are removed
PageRegions(page) ==
    CASE page = "article" ->
            << <<Run(" ", 3), Run("a", 14990), Run("\n", 2), Run(" ", 1), Run("b", 20)>>,
               EmptyStr, EmptyStr, EmptyStr, EmptyStr,
               <<Run("b", 30), Run(" ", 3), Run("a", 14990), Run("\n", 2), Run(" ", 1),
                 Run("b", 20)>> >>
      [] page = "bodyonly" ->
            << EmptyStr, EmptyStr, EmptyStr, EmptyStr, EmptyStr,
               <<Run(" ", 2), Ch("a"), Ch("\n"), Ch("b"), Ch(" ")>> >>
      [] OTHER ->
            << EmptyStr, EmptyStr, EmptyStr, EmptyStr, EmptyStr, EmptyStr >>

\* the og:description and description meta contents and the text of
\* article [data-testid="tweetText"]
PageMeta(page) ==
    CASE page = "article" ->
            << EmptyStr, <<Ch(" "), Ch("a"), Ch(" "), Ch("b"), Ch(" ")>>, EmptyStr >>
      [] OTHER -> << EmptyStr, EmptyStr, EmptyStr >>

\* extractWebPageContent once the response is there
WebPageContent(page) ==
    Substring(Trim(CollapseNewlines(CollapseWs(FirstNonEmpty(PageRegions(page))))),
              ContentLimit)

\* extractTwitterContent once the response of the fallback retrieval is there
TwitterPageContent(page) == Trim(FirstNonEmpty(PageMeta(page)))

\* response.data.data?.text of the Twitter API for the tweet
TweetText == <<Ch(" "), Ch("a"), Ch("b")>>

\* a slip: only the errors of validateUrl are thrown again
OuterCatchSecurityOnly(error) ==
    IF error = "blocked" THEN "throw" ELSE "return"

\* a slip: every error ends in the empty string
OuterCatchReturnsEmpty(error) == "return"

\* the catch block of extractContentFromUrl: errors whose message starts with
\* the no-entry sign ("blocked") or the stopwatch ("ratelimited") are thrown
\* again, every other error ends in the empty string
OuterCatch(error) ==
    IF error \in {"blocked", "ratelimited"} THEN "throw" ELSE "return"

\* what axios.get(url, options) can end with: a response with a document, an
\* AxiosError with a response status (0: no response, the request timed out or
\* the connection failed), or an error that is not an AxiosError
Outcomes ==
    {[ok |-> TRUE, isAxios |-> FALSE, status |-> 200, page |-> p] : p \in Pages}
      \cup {[ok |-> FALSE, isAxios |-> TRUE, status |-> s, page |-> "none"] :
                s \in {0, 304, 404, 429, 503}}
      \cup {[ok |-> FALSE, isAxios |-> FALSE, status |-> 0, page |-> "none"]}

\* Math.random() * 100, at the ends of its range
Jitters == {0, 99}

FetchUrls == {UrlPublic, UrlLoopback, UrlPrivate, UrlFtp, UrlTweet, UrlIpv6, UrlGarbage}

FetchCallers == {Watched, NoUser}

\* extractContentFromUrl(url, userId) up to its first await: validateUrl,
\* checkRateLimit when a userId is given, then the Twitter branch (API first
\* when the URL holds a tweet id and a bearer token is configured) or the web
\* branch, each of which issues its first request
FetchBegin(url, userId) ==
    /\ fetch.pc = "idle"
    /\ LET valid == validateUrl(url, env.allowed)
           limit == IF valid = "ok" /\ userId # NoUser
                    THEN checkRateLimit(userRequestCounts, userId, now)
                    ELSE [throws |-> FALSE, counts |-> userRequestCounts]
           error == IF valid # "ok" THEN valid
                    ELSE IF limit.throws THEN "ratelimited" ELSE "none"
           twitter == Includes(url, <<"t", "w", "i", "t", "t", "e", "r", ".", "c", "o", "m">>)
                        \/ Includes(url, <<"x", ".", "c", "o", "m">>)
           call == [IdleCall EXCEPT !.url = url, !.userId = userId,
                                    !.before = userRequestCounts]
       IN /\ userRequestCounts' = limit.counts
          /\ fetch' =
                IF error # "none"
                THEN IF OuterCatch(error) = "throw"
                     THEN [call EXCEPT !.pc = "threw", !.error = error]
                     ELSE [call EXCEPT !.pc = "returned", !.error = error,
                                       !.failed = TRUE, !.result = EmptyStr]
                ELSE IF twitter /\ extractTweetId(url) # <<>> /\ env.token
                     THEN [call EXCEPT !.pc = "api", !.path = "twitter",
                                       !.apiCalls = 1]
                ELSE [call EXCEPT !.pc = "get",
                                  !.path = IF twitter THEN "twitter" ELSE "web",
                                  !.requests = 1, !.retrieval = "pending"]

\* a call of extractContentFromUrl on its own
FetchStart(url, userId) ==
    /\ FetchBegin(url, userId)
    /\ UNCHANGED <<env, exceptFetch>>

\* apiClient.getTweet(tweetId) resolves: with the text of the tweet, which is
\* returned as it is, or with null (no data, or the request failed), and the
\* static retrieval is started
TwitterApi(text) ==
    /\ fetch.pc = "api"
    /\ fetch' = IF StrLen(text) > 0
                THEN [fetch EXCEPT !.pc = "returned", !.result = text]
                ELSE [fetch EXCEPT !.pc = "get", !.requests = 1,
                                   !.retrieval = "pending"]
    /\ UNCHANGED <<env, userRequestCounts, exceptFetch>>

\* the request in flight ends with outcome o.  fetchWithRetry resolves, throws
\* or starts a wait; when it resolves or throws, the caller (extractWebPageContent
\* or extractTwitterContent) runs to its return: the text of the document, or
\* '' from its catch block.
Attempt(o, jitter) ==
    /\ fetch.pc = "get"
    /\ LET step == fetchWithRetry(o, fetch.attempt)
           seen == [fetch EXCEPT !.lastOutcome = o]
       IN fetch' =
            CASE step = "retry" ->
                    [seen EXCEPT !.pc = "backoff", !.waits = @ + 1,
                                 !.delay = baseDelay * Pow2(fetch.attempt) + jitter]
              [] step = "throw" ->
                    [seen EXCEPT !.pc = "returned", !.retrieval = "rejected",
                                 !.retrievalError = o, !.failed = TRUE,
                                 !.result = EmptyStr]
              [] step = "resolve" ->
                    IF PageLoads(o.page)
                    THEN [seen EXCEPT !.pc = "returned", !.retrieval = "resolved",
                                      !.response = o,
                                      !.result = IF fetch.path = "twitter"
                                                 THEN TwitterPageContent(o.page)
                                                 ELSE WebPageContent(o.page)]
                    ELSE [seen EXCEPT !.pc = "returned", !.retrieval = "resolved",
                                      !.response = o, !.failed = TRUE,
                                      !.result = EmptyStr]
    /\ UNCHANGED <<env, userRequestCounts, exceptFetch>>

\* the timer of the wait fires: the loop goes round, the next request is issued
BackoffDone ==
    /\ fetch.pc = "backoff"
    /\ fetch' = [fetch EXCEPT !.pc = "get", !.attempt = @ + 1, !.requests = @ + 1,
                              !.delay = 0]
    /\ UNCHANGED <<env, userRequestCounts, exceptFetch>>

\* the limiter's Map as earlier fetches of Watched can have left it: no entry,
\* one request short of the quota, quota used up
SeedCounts ==
    {<<>>} \cup {[u \in {Watched} |-> [count |-> c, resetTime |-> RATE_LIMIT_WINDOW]] :
                    c \in {RATE_LIMIT_REQUESTS - 1, RATE_LIMIT_REQUESTS}}

\* process.env: ALLOWED_CONTENT_DOMAINS and whether TWITTER_BEARER_TOKEN is set
Envs == {[allowed |-> <<>>, token |-> FALSE],
         [allowed |-> <<>>, token |-> TRUE],
         [allowed |-> <<HostExample>>, token |-> FALSE]}

\* one call of extractContentFromUrl, from every environment, on every seeded
\* limiter state, inside the seeded window or after its reset time
InitFetch ==
    /\ IdleChunk
    /\ IdleEmbed
    /\ env \in Envs
    /\ fetch = IdleCall
    /\ now \in {0, RATE_LIMIT_WINDOW}
    /\ userRequestCounts \in SeedCounts
    /\ admitLog = <<>>
    /\ rejectedAt = -1
    /\ IdleRag
    /\ IdleProbe
    /\ IdleDocs

NextFetch ==
    \/ \E url \in FetchUrls, userId \in FetchCallers : FetchStart(url, userId)
    \/ \E text \in {TweetText, EmptyStr} : TwitterApi(text)
    \/ \E o \in Outcomes, jitter \in Jitters : Attempt(o, jitter)
    \/ BackoffDone

SpecFetch == InitFetch /\ [][NextFetch]_vars

CallEnded == fetch.pc \in {"returned", "threw"}

\* validateUrl rejects the URL of the call as a security violation
UrlBlocked == validateUrl(fetch.url, env.allowed) = "blocked"

\* when the call was made, its user had used up the quota of a window that
\* had not expired
OverQuota ==
    /\ fetch.userId # NoUser
    /\ fetch.userId \in DOMAIN fetch.before
    /\ fetch.before[fetch.userId].resetTime > now
    /\ fetch.before[fetch.userId].count >= RATE_LIMIT_REQUESTS

\* the ordinary failures never surface: whatever failed (malformed URL, the
\* retrieval, loading the document), a call that returns after a failure
\* returns the empty text, and an error that surfaces is the blocked-URL error
\* or the rate-limit error of its cause
FailuresDegrade ==
    /\ (fetch.pc = "returned" /\ fetch.failed) => fetch.result = EmptyStr
    /\ (fetch.retrieval = "rejected" \/ (fetch.retrieval = "resolved"
                                          /\ ~PageLoads(fetch.response.page)))
          => (fetch.pc = "returned" /\ fetch.failed)
    /\ fetch.pc = "threw" =>
          fetch.error = IF UrlBlocked THEN "blocked" ELSE "ratelimited"

\* C4 as claimed: a call raises exactly when its URL is blocked by validation
\* or its user is over quota; every other failure ends with the empty text.
C4_RaisesIffBlockedOrOverQuota ==
    CallEnded =>
        /\ fetch.pc = "threw" <=> (UrlBlocked \/ OverQuota)
        /\ FailuresDegrade

\* C4 amended: a call raises exactly when its URL is blocked by validation, or
\* its URL passes validation and its user is over quota; a malformed URL ends
\* with the empty text also for a user over quota, and so does every other
\* failure.
C4_FetchOutcome ==
    CallEnded =>
        /\ fetch.pc = "threw" <=>
              \/ UrlBlocked
              \/ validateUrl(fetch.url, env.allowed) = "ok" /\ OverQuota
        /\ FailuresDegrade

\* a user over quota fetched a public page and got the rate-limit error
C4_Witness ==
    /\ fetch.pc = "threw"
    /\ fetch.error = "ratelimited"
    /\ fetch.url = UrlPublic
    /\ OverQuota
    /\ fetch.requests = 0

\* the call has sent nothing: no request to the target, none to the Twitter
\* API, and it has waited for no retry
NothingSent ==
    /\ fetch.requests = 0
    /\ fetch.apiCalls = 0
    /\ fetch.waits = 0

\* C25: rejection precedes the network.  A call that has ended with the
\* rate-limit error or the blocked-URL error has issued no HTTP request, to the
\* target or to the Twitter API; and a call whose URL validation blocks, or
\* whose URL is valid while its user is over the quota, sends nothing at any
\* point of its run.
C25_RejectionPrecedesNetwork ==
    /\ fetch.pc = "threw" =>
          /\ fetch.error \in {"blocked", "ratelimited"}
          /\ NothingSent
    /\ (fetch.pc # "idle"
          /\ (UrlBlocked \/ (validateUrl(fetch.url, env.allowed) = "ok" /\ OverQuota)))
          => NothingSent

\* a user over quota asked for a tweet with the API token configured: the call
\* ended with the rate-limit error before the API or the page was asked
C25_Witness ==
    /\ fetch.pc = "threw"
    /\ fetch.error = "ratelimited"
    /\ fetch.url = UrlTweet
    /\ env.token
    /\ NothingSent

\* C26 as claimed: a URL whose host is an IPv6 literal in a blocked range
\* (here the loopback address ::1) is rejected with the blocked-URL error and
\* no request is made for it.
C26_Ipv6Rejected ==
    (fetch.pc # "idle" /\ fetch.url = UrlIpv6) =>
        /\ fetch.pc = "threw"
        /\ fetch.error = "blocked"
        /\ fetch.requests = 0

\* transient failures, as the claim lists them: an error without an HTTP
\* response (network error), HTTP 5xx, HTTP 429
Transient(o) ==
    /\ ~o.ok
    /\ \/ o.status = 0
       \/ o.status >= 500 /\ o.status < 600
       \/ o.status = 429

\* an HTTP 4xx other than 429
ClientError(o) ==
    ~o.ok /\ o.isAxios /\ o.status >= 400 /\ o.status < 500 /\ o.status # 429

\* the parts of the protocol that do not depend on which failures are retried
RetryFrame ==
    /\ fetch.requests <= maxRetries
    /\ fetch.requests = fetch.attempt + (IF fetch.retrieval = "none" THEN 0 ELSE 1)
    /\ fetch.waits = fetch.attempt + (IF fetch.pc = "backoff" THEN 1 ELSE 0)
    /\ fetch.retrieval = "resolved" =>
          fetch.lastOutcome.ok /\ fetch.response = fetch.lastOutcome
    /\ fetch.retrieval = "rejected" =>
          /\ ~fetch.lastOutcome.ok
          /\ fetch.retrievalError = fetch.lastOutcome
          /\ ClientError(fetch.lastOutcome) \/ fetch.requests = maxRetries
    /\ (fetch.lastOutcome # NoOutcome /\ ClientError(fetch.lastOutcome)) =>
          fetch.retrieval = "rejected"

\* the number of requests of the retrieval that have ended; lastOutcome is
\* the outcome of the last of them
EndedAttempts == fetch.requests - (IF fetch.pc = "get" THEN 1 ELSE 0)

\* C5 as claimed: a further attempt follows an attempt exactly when that
\* attempt failed with a transient failure (no response, 5xx, 429) and was
\* not the third.
C5_RetryIffTransient ==
    /\ RetryFrame
    /\ fetch.lastOutcome # NoOutcome =>
          (fetch.retrieval = "pending" <=>
              (Transient(fetch.lastOutcome) /\ EndedAttempts < maxRetries))

\* C5 amended: a further attempt follows an attempt exactly when that attempt
\* failed with anything but an HTTP 4xx other than 429 (so also after a 3xx
\* status or an error without HTTP response) and was not the third; at most
\* three requests, the first response ends the retrieval with that response,
\* a 4xx other than 429 ends it at once without a wait, the third failure
\* ends it with the error of that attempt.
C5_RetryProtocol ==
    /\ RetryFrame
    /\ fetch.lastOutcome # NoOutcome =>
          (fetch.retrieval = "pending" <=>
              (/\ ~fetch.lastOutcome.ok
               /\ ~ClientError(fetch.lastOutcome)
               /\ EndedAttempts < maxRetries))

\* the third request failed with 503 after two waits and its error surfaced
C5_Witness ==
    /\ fetch.retrieval = "rejected"
    /\ fetch.requests = maxRetries
    /\ fetch.waits = maxRetries - 1
    /\ fetch.retrievalError.status = 503

-----------------------------------------------------------------------------
(* Vector store adapter: vectordbService.ts *)

\* the content ids of the model, in a fixed order
ContentSeq == <<"c1", "c2", "c3", "c4", "c5", "c6", "c7", "c8">>

ContentRank(c) == CHOOSE k \in 1 .. Len(ContentSeq) : ContentSeq[k] = c

\* `${contentId}-chunk-${idx}`
RecordId(contentId, idx) == <<contentId, "-chunk-", idx>>

\* a slip: the records of the contentId are removed before the new ones are
\* written
upsertChunksReplacing(records, userId, contentId, chunks) ==
    LET vectors == [k \in 1 .. Len(chunks) |->
                        [id |-> RecordId(contentId, k - 1),
                         values |-> chunks[k].embedding,
                         metadata |-> [userId |-> userId,
                                       contentId |-> contentId,
                                       text |-> chunks[k].text,
                                       chunkIndex |-> k - 1]]]
        ids == {vectors[k].id : k \in 1 .. Len(chunks)}
        kept == {id \in DOMAIN records : records[id].metadata.contentId # contentId}
    IN [id \in kept \cup ids |->
            IF id \in ids
            THEN LET v == CHOOSE x \in {vectors[k] : k \in 1 .. Len(chunks)} : x.id = id
                 IN [values |-> v.values, metadata |-> v.metadata]
            ELSE records[id]]

\* upsertChunks(userId, contentId, chunks) on the records of the index: one
\* record per chunk, written by a single index.upsert; a record with the same
\* id is replaced
upsertChunks(records, userId, contentId, chunks) ==
    LET vectors == [k \in 1 .. Len(chunks) |->
                        [id |-> RecordId(contentId, k - 1),
                         values |-> chunks[k].embedding,
                         metadata |-> [userId |-> userId,
                                       contentId |-> contentId,
                                       text |-> chunks[k].text,
                                       chunkIndex |-> k - 1]]]
        ids == {vectors[k].id : k \in 1 .. Len(chunks)}
    IN [id \in DOMAIN records \cup ids |->
            IF id \in ids
            THEN LET v == CHOOSE x \in {vectors[k] : k \in 1 .. Len(chunks)} : x.id = id
                 IN [values |-> v.values, metadata |-> v.metadata]
            ELSE records[id]]

\* the similarity score of the index for two vectors, each one of EmbMod
\* directions on a circle: the closer the directions, the higher the score
Score(q, v) ==
    LET d == IF q >= v THEN q - v ELSE v - q
    IN EmbMod - (IF d <= EmbMod - d THEN d ELSE EmbMod - d)

\* the orders in which the index can return matches of equal score
TieOrders == {"asc", "desc"}

\* match a is returned before match b: higher score first, equal scores in
\* the order the index happens to use
Before(records, q, order, a, b) ==
    LET sa == Score(q, records[a].values)
        sb == Score(q, records[b].values)
        ka == <<ContentRank(records[a].metadata.contentId), records[a].metadata.chunkIndex>>
        kb == <<ContentRank(records[b].metadata.contentId), records[b].metadata.chunkIndex>>
        less == ka[1] < kb[1] \/ (ka[1] = kb[1] /\ ka[2] < kb[2])
    IN \/ sa > sb
       \/ sa = sb /\ (IF order = "asc" THEN less ELSE ~less)

RECURSIVE Ranked(_, _, _, _)
Ranked(records, q, order, ids) ==
    IF ids = {} THEN <<>>
    ELSE LET best == CHOOSE a \in ids :
                        \A b \in ids \ {a} : Before(records, q, order, a, b)
         IN <<best>> \o Ranked(records, q, order, ids \ {best})

\* a slip: the query carries no filter on userId
searchChunksUnfiltered(records, userId, queryEmbedding, topK, order) ==
    LET ranked == Ranked(records, queryEmbedding, order, DOMAIN records)
        n == IF Len(ranked) < topK THEN Len(ranked) ELSE topK
    IN [k \in 1 .. n |->
            [id |-> ranked[k],
             score |-> Score(queryEmbedding, records[ranked[k]].values),
             contentId |-> records[ranked[k]].metadata.contentId,
             text |-> records[ranked[k]].metadata.text,
             chunkIndex |-> records[ranked[k]].metadata.chunkIndex]]

\* searchChunks(userId, queryEmbedding, topK): index.query with the filter
\* userId = userId returns the topK best matches among the records of that
\* user, best first; each match is mapped to {id, score, contentId, text,
\* chunkIndex}
searchChunks(records, userId, queryEmbedding, topK, order) ==
    LET matching == {id \in DOMAIN records : records[id].metadata.userId = userId}
        ranked == Ranked(records, queryEmbedding, order, matching)
        n == IF Len(ranked) < topK THEN Len(ranked) ELSE topK
    IN [k \in 1 .. n |->
            [id |-> ranked[k],
             score |-> Score(queryEmbedding, records[ranked[k]].values),
             contentId |-> records[ranked[k]].metadata.contentId,
             text |-> records[ranked[k]].metadata.text,
             chunkIndex |-> records[ranked[k]].metadata.chunkIndex]]

\* deleteChunksForContent(contentId): index.deleteMany with the filter
\* contentId = contentId
deleteChunksForContent(records, contentId) ==
    [id \in {i \in DOMAIN records : records[i].metadata.contentId # contentId} |->
        records[id]]

\* what the index can hold of an index.upsert of n records that rejects, as
\* the positions of the records it wrote.  upsertChunks learns of the
\* rejection only: the request may not have reached the index (none), it may
\* have been applied with its answer lost (all), and nothing in the program
\* excludes that a part was applied (the first record stands for a part).
RejectedWrites(n) == {{}, {k \in 1 .. n : k = 1}, 1 .. n}

\* a slip: the catch block clears the records of the content
upsertRejectedCleared(records, userId, contentId, chunks, written) ==
    deleteChunksForContent(records, contentId)

\* upsertChunks(userId, contentId, chunks) whose index.upsert rejects, the
\* index having written the records at the positions written: nothing in
\* upsertChunks or in its callers writes or removes a record after that
upsertRejected(records, userId, contentId, chunks, written) ==
    LET applied == upsertChunks(records, userId, contentId, chunks)
        ids == {RecordId(contentId, k - 1) : k \in written}
    IN [id \in DOMAIN records \cup ids |->
            IF id \in ids THEN applied[id] ELSE records[id]]

-----------------------------------------------------------------------------
(* Orchestrator: ragService.ts *)

\* a length below which a fetched body is not used (indexContent)
MinBody == 50

\* a length below which createRichContent leaves the body out
MinContent == 50

\* chunkText(fullText, 500)
ChunkSize == 500

FirstTopK == 10

SecondTopK == 20

\* fewer distinct contentIds than this in the first batch: query again
DiversityFloor == 5

\* the loop over the results stops at this many posts
MaxPosts == 5

\* title.substring(0, 50) and question.substring(0, 50)
TitleLimit == 50

\* a string literal, character by character
Lit(cs) == [i \in 1 .. Len(cs) |-> Ch(cs[i])]

\* createRichContent(title, link, extractedContent)
createRichContent(title, link, extractedContent) ==
    LET head == Lit(<<"T", "i", "t", "l", "e", ":", " ">>) \o title
                  \o Lit(<<"\n", "L", "i", "n", "k", ":", " ">>) \o link
    IN IF StrLen(extractedContent) < MinContent THEN head
       ELSE head \o Lit(<<"\n", "\n", "C", "o", "n", "t", "e", "n", "t", ":", "\n">>)
                 \o extractedContent

\* a slip: a fetched content of exactly 50 characters is not used
IndexBodyAbove(extractedContent, text) ==
    IF StrLen(extractedContent) <= MinBody THEN text ELSE extractedContent

\* the body indexContent goes on with: the fetched content, or the text given
\* by the caller when the fetched content is empty or shorter than 50
IndexBody(extractedContent, text) ==
    IF StrLen(extractedContent) < MinBody THEN text ELSE extractedContent

\* fullText of indexContent for a fetched content
IndexText(title, link, text, extractedContent) ==
    createRichContent(title, link, IndexBody(extractedContent, text))

\* the chunks of indexContent for a fetched content
IndexChunks(title, link, text, extractedContent) ==
    chunkText(IndexText(title, link, text, extractedContent), ChunkSize)

\* the value createEmbeddings(chunks) resolves with
Embeddings(chunks) == [k \in 1 .. Len(chunks) |-> pipe(chunks[k])]

\* a slip: each text is paired with the embedding of the chunk after it
ChunksWithEmbeddingsShifted(chunks, embeddings) ==
    [k \in 1 .. Len(chunks) |->
        [text |-> chunks[k], embedding |-> embeddings[(k % Len(chunks)) + 1]]]

\* chunks.map((text, idx) => ({text, embedding: embeddings[idx]}))
ChunksWithEmbeddings(chunks, embeddings) ==
    [k \in 1 .. Len(chunks) |-> [text |-> chunks[k], embedding |-> embeddings[k]]]

\* a slip: a record that is already there is not replaced
AppliedIfAbsent(records, call) ==
    LET written == upsertChunks(<<>>, call.userId, call.contentId,
                                ChunksWithEmbeddings(call.chunks, call.embeddings))
    IN [id \in DOMAIN records \cup DOMAIN written |->
            IF id \in DOMAIN records THEN records[id] ELSE written[id]]

\* the records after the index.upsert of a call has been applied
Applied(records, call) ==
    upsertChunks(records, call.userId, call.contentId,
                 ChunksWithEmbeddings(call.chunks, call.embeddings))

\* new Set(searchResults.map(r => r.contentId))
ContentIdsOf(hits) == {hits[k].contentId : k \in 1 .. Len(hits)}

\* a slip: the loop does not stop at MaxPosts posts
RECURSIVE PostLoopNoStop(_, _, _)
PostLoopNoStop(searchResults, i, posts) ==
    IF i > Len(searchResults) THEN posts
    ELSE LET result == searchResults[i]
             next == IF result.contentId \in ContentIdsOf(posts) THEN posts
                     ELSE Append(posts, result)
         IN PostLoopNoStop(searchResults, i + 1, next)

\* a slip: a later hit of a contentId replaces the post of that contentId
RECURSIVE PostLoopLastSeen(_, _, _)
PostLoopLastSeen(searchResults, i, posts) ==
    IF i > Len(searchResults) THEN posts
    ELSE LET result == searchResults[i]
             next == IF result.contentId \in ContentIdsOf(posts)
                     THEN [k \in 1 .. Len(posts) |->
                              IF posts[k].contentId = result.contentId
                              THEN result ELSE posts[k]]
                     ELSE Append(posts, result)
         IN IF Len(next) >= MaxPosts THEN next
            ELSE PostLoopLastSeen(searchResults, i + 1, next)

\* the loop that fills postMap: the first hit of each contentId, in the order
\* of the results, until MaxPosts posts are there
RECURSIVE PostLoop(_, _, _)
PostLoop(searchResults, i, posts) ==
    IF i > Len(searchResults) THEN posts
    ELSE LET result == searchResults[i]
             next == IF result.contentId \in ContentIdsOf(posts) THEN posts
                     ELSE Append(posts, result)
         IN IF Len(next) >= MaxPosts THEN next
            ELSE PostLoop(searchResults, i + 1, next)

\* contextForLLM: {text, contentId, score} of each unique post
ContextForLLM(searchResults) ==
    LET uniquePosts == PostLoop(searchResults, 1, <<>>)
    IN [k \in 1 .. Len(uniquePosts) |->
            [text |-> uniquePosts[k].text,
             contentId |-> uniquePosts[k].contentId,
             score |-> uniquePosts[k].score]]

ChatConversation == Lit(<<"C", "h", "a", "t", " ", "C", "o", "n", "v", "e", "r", "s", "a", "t", "i", "o", "n">>)

\* a slip: a failed title request gives the default title
generateChatTitleDefaultOnFailure(question, ok, response) ==
    IF ~ok \/ StrLen(Trim(Substring(response, TitleLimit))) = 0 THEN ChatConversation
    ELSE Trim(Substring(response, TitleLimit))

\* generateChatTitle(question) for the response of the model: its first 50
\* characters trimmed, "Chat Conversation" when that is empty, and the first
\* 50 characters of the question when the request failed
generateChatTitle(question, ok, response) ==
    IF ~ok THEN Substring(question, TitleLimit)
    ELSE IF StrLen(Trim(Substring(response, TitleLimit))) = 0 THEN ChatConversation
    ELSE Trim(Substring(response, TitleLimit))

\* titles, link and texts of the documents of the model
Title(k) == <<Ch("R"), Run("x", k)>>

Link == Lit(UrlPublic)

\* a text given by the caller, shorter than 50 characters
FallbackText == <<Run("r", 36), Ch(".")>>

\* n sentences of about 300 characters, separated by a blank
RECURSIVE Sentences(_)
Sentences(n) ==
    IF n = 0 THEN <<>>
    ELSE Sentences(n - 1) \o (IF n > 1 THEN <<Ch(" ")>> ELSE <<>>)
           \o <<Run("a", 300 + n), Ch(".")>>

\* what extractContentFromUrl can return for the link: nothing, or a page
LongContent == Sentences(2)

BigContent == Sentences(11)

Questions == {<<Ch("a")>>, <<Ch("b"), Ch("a")>>, <<Run("a", 49), Run("b", 11)>>}

\* indexContent has ended: with "ok" it returned, else the value names the
\* await that rejected and the call threw "Failed to index content for RAG"
Ended(call, result) ==
    [IdleIndex EXCEPT !.contentId = call.contentId, !.result = result]

\* indexContent(userId, contentId, title, link, text) is called and awaits
\* extractContentFromUrl(link, userId), which runs to its first await inside
\* that call: fetchError is the error validateUrl or checkRateLimit threw
\* there, "none" if neither did
IndexCalled(userId, contentId, url, text) ==
    [IdleIndex EXCEPT !.pc = "fetching", !.userId = userId,
                      !.contentId = contentId,
                      !.title = Title(ContentRank(contentId)),
                      !.link = Lit(url), !.text = text,
                      !.fetchError = Admission(url, userId, userRequestCounts, now,
                                               env.allowed).error]

\* number of indexContent calls followed in a behaviour
MaxIndexCalls == 3

RECURSIVE Admitted(_, _)
\* the requests the limiter has counted for the users of the set S
Admitted(counts, S) ==
    IF S = {} THEN 0
    ELSE LET u == CHOOSE x \in S : TRUE
         IN counts[u].count + Admitted(counts, S \ {u})

\* another indexContent call is followed
MoreCalls == Admitted(userRequestCounts, DOMAIN userRequestCounts) < MaxIndexCalls

\* the limiter's Map after that call was made
Counted(url, userId) ==
    Admission(url, userId, userRequestCounts, now, env.allowed).counts

IndexBegin(userId, contentId, url, text) ==
    /\ index.pc = "idle"
    /\ index' = IndexCalled(userId, contentId, url, text)
    /\ userRequestCounts' = Counted(url, userId)
    /\ unindexed' = unindexed \ {contentId}
    /\ unindex' = IF unindex.pc = "deleting" /\ unindex.contentId = contentId
                  THEN [unindex EXCEPT !.clean = FALSE] ELSE unindex

IndexCall(userId, contentId, url, text) ==
    /\ IndexBegin(userId, contentId, url, text)
    /\ UNCHANGED <<store, answer, indexedFor, embeddingPipeline, chunkVars, many, one,
                   now, admitLog, rejectedAt, fetchVars, probe, docVars>>

\* indexContent for a document whose link is a public page, with the text the
\* caller gives (POST /api/v1/chat/index with a text in its body)
IndexStart(userId, contentId) == IndexCall(userId, contentId, UrlPublic, FallbackText)

\* the fetcher returns extractedContent: the body is chosen, the full text
\* built and chunked, createEmbeddings(chunks) is awaited
IndexFetched(extractedContent) ==
    /\ index.pc = "fetching"
    /\ Fetchable(index.fetchError, extractedContent)
    /\ index' = [index EXCEPT !.pc = "embedding",
                              !.fetched = extractedContent,
                              !.loading = (embeddingPipeline = Null),
                              !.fullText = IndexText(index.title, index.link,
                                                     index.text, extractedContent),
                              !.chunks = IndexChunks(index.title, index.link,
                                                     index.text, extractedContent)]
    /\ UNCHANGED <<store, unindex, answer, indexedFor, unindexed,
                   embeddingPipeline, exceptRag>>

\* the load of the model started by the call resolves: getEmbeddingPipeline
\* stores the handle, and the computations are started
IndexLoaded ==
    /\ index.pc = "embedding"
    /\ index.loading
    /\ embeddingPipeline' = "model"
    /\ index' = [index EXCEPT !.loading = FALSE]
    /\ UNCHANGED <<store, unindex, answer, indexedFor, unindexed, exceptRag>>

\* createEmbeddings resolves: the lengths are compared, the chunks paired with
\* their embeddings, upsertChunks is awaited
IndexEmbedded ==
    /\ index.pc = "embedding"
    /\ ~index.loading
    /\ UNCHANGED embeddingPipeline
    /\ LET embeddings == Embeddings(index.chunks)
       IN index' = IF Len(embeddings) = 0 \/ Len(embeddings) # Len(index.chunks)
                   THEN Ended(index, "embedding")
                   ELSE [index EXCEPT !.pc = "upserting",
                                      !.embeddings = embeddings]
    /\ UNCHANGED <<store, unindex, answer, indexedFor, unindexed, exceptRag>>

\* index.upsert is applied and upsertChunks resolves: indexContent returns
IndexUpsert ==
    /\ index.pc = "upserting"
    /\ store' = upsertChunks(store, index.userId, index.contentId,
                             ChunksWithEmbeddings(index.chunks, index.embeddings))
    /\ indexedFor' = IF index.userId = Watched
                     THEN indexedFor \cup {index.contentId} ELSE indexedFor
    /\ index' = Ended(index, "ok")
    /\ UNCHANGED <<unindex, answer, unindexed, embeddingPipeline, exceptRag>>

\* the awaited call rejects (the fetcher, when validateUrl blocked the link or
\* checkRateLimit threw; the embedder, on the load of the model or on a
\* computation; the vector store): the catch block throws "Failed to index
\* content for RAG"
IndexFails ==
    /\ index.pc \in {"fetching", "embedding", "upserting"}
    /\ index.pc = "fetching" => index.fetchError \in {"blocked", "ratelimited"}
    /\ index' = Ended(index, index.pc)
    /\ \E written \in RejectedWrites(IF index.pc = "upserting"
                                      THEN Len(index.chunks) ELSE 0) :
          store' = IF index.pc = "upserting"
                   THEN upsertRejected(store, index.userId, index.contentId,
                                       ChunksWithEmbeddings(index.chunks,
                                                            index.embeddings),
                                       written)
                   ELSE store
    /\ UNCHANGED <<unindex, answer, indexedFor, unindexed,
                   embeddingPipeline, exceptRag>>

\* unindexContent(contentId) is called and awaits deleteChunksForContent
UnindexStart(contentId) ==
    /\ unindex.pc = "idle"
    /\ unindex' = [pc |-> "deleting", contentId |-> contentId, clean |-> TRUE]
    /\ UNCHANGED <<store, index, answer, indexedFor, unindexed,
                   embeddingPipeline, exceptRag>>

\* index.deleteMany is applied and unindexContent returns
UnindexApply ==
    /\ unindex.pc = "deleting"
    /\ store' = deleteChunksForContent(store, unindex.contentId)
    /\ unindexed' = IF unindex.clean THEN unindexed \cup {unindex.contentId}
                    ELSE unindexed
    /\ indexedFor' = indexedFor \ {unindex.contentId}
    /\ unindex' = IdleUnindex
    /\ UNCHANGED <<index, answer, embeddingPipeline, exceptRag>>

\* index.deleteMany rejects: "Failed to remove content from RAG"
UnindexFails ==
    /\ unindex.pc = "deleting"
    /\ unindex' = IdleUnindex
    /\ UNCHANGED <<store, index, answer, indexedFor, unindexed,
                   embeddingPipeline, exceptRag>>

\* answerQuestion(userId, question) is called and awaits createEmbedding
AnswerStart(userId, question) ==
    /\ answer.pc \in {"idle", "returned", "failed"}
    /\ answer' = [IdleAnswer EXCEPT !.pc = "embedding", !.userId = userId,
                                    !.question = question,
                                    !.loading = (embeddingPipeline = Null)]
    /\ UNCHANGED <<store, index, unindex, indexedFor, unindexed,
                   embeddingPipeline, exceptRag>>

\* the load of the model started by the call resolves: getEmbeddingPipeline
\* stores the handle, and the computation is started
AnswerLoaded ==
    /\ answer.pc = "embedding"
    /\ answer.loading
    /\ embeddingPipeline' = "model"
    /\ answer' = [answer EXCEPT !.loading = FALSE]
    /\ UNCHANGED <<store, index, unindex, indexedFor, unindexed, exceptRag>>

\* createEmbedding resolves; searchChunks(userId, questionEmbedding, 10) is
\* awaited
AnswerEmbedded ==
    /\ answer.pc = "embedding"
    /\ ~answer.loading
    /\ UNCHANGED embeddingPipeline
    /\ answer' = [answer EXCEPT !.pc = "query1",
                                !.questionEmbedding = pipe(answer.question)]
    /\ UNCHANGED <<store, index, unindex, indexedFor, unindexed, exceptRag>>

\* a slip: the answer generator is asked also when nothing was retrieved
AfterSearchAlwaysGenerates(call, searchResults) ==
    [call EXCEPT !.pc = "generating", !.hits = searchResults,
                 !.sources = ContextForLLM(searchResults)]

\* what answerQuestion does with its final searchResults, up to the next await:
\* the canned answer and the title request when they are empty, else the
\* unique posts and the request to the answer generator
AfterSearch(call, searchResults) ==
    IF Len(searchResults) = 0
    THEN [call EXCEPT !.pc = "titling", !.hits = searchResults,
                      !.answer = "canned", !.sources = <<>>]
    ELSE [call EXCEPT !.pc = "generating", !.hits = searchResults,
                      !.sources = ContextForLLM(searchResults)]

\* a slip: the additional results are appended to the first batch
RequeryMerged(searchResults, additionalResults) == searchResults \o additionalResults

\* searchResults = additionalResults
Requery(searchResults, additionalResults) == additionalResults

\* the first query resolves: with fewer than 5 distinct contentIds the second
\* query (topK 20) is awaited
AnswerQuery1(order) ==
    /\ answer.pc = "query1"
    /\ LET searchResults == searchChunks(store, answer.userId,
                                         answer.questionEmbedding, FirstTopK, order)
           asked == [answer EXCEPT !.queries = 1]
       IN answer' = IF Cardinality(ContentIdsOf(searchResults)) < DiversityFloor
                    THEN [asked EXCEPT !.pc = "query2", !.hits = searchResults]
                    ELSE AfterSearch(asked, searchResults)
    /\ UNCHANGED <<store, index, unindex, indexedFor, unindexed,
                   embeddingPipeline, exceptRag>>

\* the second query resolves and replaces the results of the first
AnswerQuery2(order) ==
    /\ answer.pc = "query2"
    /\ answer' = AfterSearch([answer EXCEPT !.queries = 2,
                                            !.discarded = answer.hits],
                             Requery(answer.hits,
                                     searchChunks(store, answer.userId,
                                                  answer.questionEmbedding,
                                                  SecondTopK, order)))
    /\ UNCHANGED <<store, index, unindex, indexedFor, unindexed,
                   embeddingPipeline, exceptRag>>

\* generateAnswer resolves; generateChatTitle(question) is awaited
AnswerGenerated ==
    /\ answer.pc = "generating"
    /\ answer' = [answer EXCEPT !.pc = "titling", !.answer = "generated"]
    /\ UNCHANGED <<store, index, unindex, indexedFor, unindexed,
                   embeddingPipeline, exceptRag>>

\* generateChatTitle resolves (it catches its own failure); answerQuestion
\* returns {answer, sources, title}
AnswerTitled(ok, response) ==
    /\ answer.pc = "titling"
    /\ answer' = [answer EXCEPT !.pc = "returned", !.hits = <<>>,
                                !.discarded = <<>>,
                                !.titleFailed = ~ok,
                                !.title = generateChatTitle(answer.question, ok,
                                                            response)]
    /\ UNCHANGED <<store, index, unindex, indexedFor, unindexed,
                   embeddingPipeline, exceptRag>>

\* createEmbedding, searchChunks or generateAnswer rejects: the catch block
\* throws "Failed to process question"
AnswerFails ==
    /\ answer.pc \in {"embedding", "query1", "query2", "generating"}
    /\ answer' = [IdleAnswer EXCEPT !.pc = "failed"]
    /\ UNCHANGED <<store, index, unindex, indexedFor, unindexed,
                   embeddingPipeline, exceptRag>>

\* the responses of the title model: a title, nothing
TitleResponses == {<<Ch(" "), Ch("t")>>, EmptyStr}

-----------------------------------------------------------------------------
(* Specification of the orchestrator: index, unindex and answer calls of two
   users on one content id, interleaved at their awaits *)

RagContentIds == {"c1"}

RagQuestion == <<Ch("a")>>

InitRag ==
    /\ IdleChunk
    /\ many = IdleMany
    /\ one = IdleOne
    /\ embeddingPipeline = Null
    /\ IdleRate
    /\ IdleFetch
    /\ IdleRag
    /\ IdleProbe
    /\ IdleDocs

NextRag ==
    \/ \E userId \in Users, contentId \in RagContentIds :
          MoreCalls /\ IndexStart(userId, contentId)
    \/ \E extractedContent \in {EmptyStr, LongContent} : IndexFetched(extractedContent)
    \/ IndexLoaded
    \/ IndexEmbedded
    \/ IndexUpsert
    \/ IndexFails
    \/ \E contentId \in RagContentIds : UnindexStart(contentId)
    \/ UnindexApply
    \/ UnindexFails
    \/ \E userId \in Users : AnswerStart(userId, RagQuestion)
    \/ AnswerLoaded
    \/ AnswerEmbedded
    \/ \E order \in TieOrders : AnswerQuery1(order)
    \/ \E order \in TieOrders : AnswerQuery2(order)
    \/ AnswerGenerated
    \/ AnswerTitled(TRUE, EmptyStr)
    \/ AnswerFails

SpecRag == InitRag /\ [][NextRag]_vars

\* the records of userId in the index, and the content ids they belong to
RecordsOf(records, userId) ==
    {id \in DOMAIN records : records[id].metadata.userId = userId}

ContentIdsIn(records, userId) ==
    {records[id].metadata.contentId : id \in RecordsOf(records, userId)}

\* C1: a query made for a user returns only hits read from records whose
\* stored userId is that user, and every source of an answer is such a hit,
\* whatever index, unindex and answer calls of the two users are interleaved
\* (both users index the same content id).
C1_Isolation ==
    /\ [][answer'.hits # answer.hits =>
            \A k \in 1 .. Len(answer'.hits) :
                /\ answer'.hits[k].id \in DOMAIN store
                /\ store[answer'.hits[k].id].metadata.userId = answer'.userId]_vars
    /\ [][answer'.sources # answer.sources =>
            \A k \in 1 .. Len(answer'.sources) :
                \E id \in RecordsOf(store, answer'.userId) :
                    /\ store[id].metadata.contentId = answer'.sources[k].contentId
                    /\ store[id].metadata.text = answer'.sources[k].text]_vars

\* the index holds records of both users under the one content id and an
\* answer for u1 has its sources
C1_Witness ==
    /\ answer.pc = "generating"
    /\ answer.userId = "u1"
    /\ Len(answer.sources) = 1
    /\ RecordsOf(store, "u1") # {}
    /\ RecordsOf(store, "u2") # {}

\* C14: on the step on which indexContent returns with success for n chunks
\* (n >= 1), the index holds for every i < n the record "<contentId>-chunk-i"
\* with the caller's userId, the contentId, chunkIndex i, the text of the i-th
\* chunk and the embedding of that text, whatever record had that id before;
\* when the index held no record of the contentId before, these n are all its
\* records of the contentId; no other record is changed.
C14_RecordScheme ==
    [][index.pc = "upserting" /\ index'.result = "ok" =>
          LET n == Len(index.chunks)
              c == index.contentId
              written == {RecordId(c, i) : i \in 0 .. n - 1}
          IN /\ n >= 1
             /\ \A i \in 0 .. n - 1 :
                   /\ RecordId(c, i) \in DOMAIN store'
                   /\ store'[RecordId(c, i)].metadata =
                         [userId |-> index.userId, contentId |-> c,
                          text |-> index.chunks[i + 1], chunkIndex |-> i]
                   /\ store'[RecordId(c, i)].values = pipe(index.chunks[i + 1])
             /\ (\A id \in DOMAIN store : store[id].metadata.contentId # c) =>
                   /\ {id \in DOMAIN store' : store'[id].metadata.contentId = c} = written
                   /\ Cardinality(written) = n
             /\ DOMAIN store' = DOMAIN store \cup written
             /\ \A id \in DOMAIN store \ written : store'[id] = store[id]]_vars

\* u1's document was indexed in two chunks with different embeddings
C14_Witness ==
    /\ index.pc = "idle"
    /\ index.result = "ok"
    /\ DOMAIN store = {RecordId("c1", 0), RecordId("c1", 1)}
    /\ store[RecordId("c1", 0)].metadata.userId = "u1"
    /\ store[RecordId("c1", 1)].metadata.chunkIndex = 1
    /\ store[RecordId("c1", 0)].values # store[RecordId("c1", 1)].values

\* the records of a contentId in the index
RecordsOfContent(records, contentId) ==
    {id \in DOMAIN records : records[id].metadata.contentId = contentId}

\* C21: when indexContent returns with success for m chunks of a contentId
\* that has records with chunkIndex m and above, the records 0 .. m-1 hold the
\* new text and vectors, the records with chunkIndex m and above stay as they
\* were, and the index holds as many records of the contentId as before; a
\* later query of a user returns every record of that user while they are
\* at most topK.
C21_ShrunkLeavesOrphans ==
    /\ [][index.pc = "upserting" /\ index'.result = "ok" =>
            LET m == Len(index.chunks)
                c == index.contentId
                old == RecordsOfContent(store, c)
                orphans == {id \in old : store[id].metadata.chunkIndex >= m}
            IN orphans # {} =>
                  /\ \A id \in orphans :
                        id \in DOMAIN store' /\ store'[id] = store[id]
                  /\ \A i \in 0 .. m - 1 :
                        /\ store'[RecordId(c, i)].metadata.text = index.chunks[i + 1]
                        /\ store'[RecordId(c, i)].values = index.embeddings[i + 1]
                        /\ store'[RecordId(c, i)].metadata.userId = index.userId
                  /\ RecordsOfContent(store', c) = old
                  /\ Cardinality(old) = m + Cardinality(orphans)]_vars
    /\ [][(/\ answer.pc = "query1"
           /\ answer'.pc \in {"query2", "generating", "titling"}
           /\ Cardinality(RecordsOf(store, answer.userId)) <= FirstTopK) =>
            \A id \in RecordsOf(store, answer.userId) :
                \E k \in 1 .. Len(answer'.hits) :
                    /\ answer'.hits[k].id = id
                    /\ answer'.hits[k].text = store[id].metadata.text]_vars

\* u1's document, indexed in two chunks, was indexed again in one: chunk 0 is
\* the new text, chunk 1 is still there, and a query of u1 returned it
C21_Witness ==
    /\ index.pc = "idle"
    /\ index.result = "ok"
    /\ DOMAIN store = {RecordId("c1", 0), RecordId("c1", 1)}
    /\ store[RecordId("c1", 0)].metadata.text
          = IndexChunks(Title(1), Link, FallbackText, EmptyStr)[1]
    /\ store[RecordId("c1", 0)].metadata.userId = "u1"
    /\ store[RecordId("c1", 1)].metadata.userId = "u1"
    /\ answer.pc = "generating"
    /\ answer.userId = "u1"
    /\ \E k \in 1 .. Len(answer.hits) : answer.hits[k].id = RecordId("c1", 1)

\* C27 as claimed: no indexContent call made for a user replaces or removes a
\* record whose stored userId is another user.
C27_NoForeignWrite ==
    [][index.pc = "upserting" =>
          \A id \in DOMAIN store :
              store[id].metadata.userId # index.userId =>
                  id \in DOMAIN store' /\ store'[id] = store[id]]_vars

\* C7 as claimed: once unindexContent(c) has returned, and as long as no
\* indexContent for c is started after that unindexContent was called, no
\* query returns a hit of c, also when an indexContent for c was in flight
\* while unindexContent ran.
C7_UnindexedStaysGone ==
    [][answer'.hits # answer.hits =>
          \A k \in 1 .. Len(answer'.hits) :
              answer'.hits[k].contentId \notin unindexed]_vars

\* C10 as claimed: when a user with at most 5 documents and at most 20
\* records has indexed c with success and c was not unindexed since, the
\* sources of an answer for that user hold an entry of c whose text is the
\* text of a record stored for c.
C10_IndexedIsRetrieved ==
    [][(/\ answer.pc \in {"query1", "query2"}
        /\ answer'.pc \in {"generating", "titling"}
        /\ answer.userId = Watched
        /\ Cardinality(ContentIdsIn(store, Watched)) <= 5
        /\ Cardinality(RecordsOf(store, Watched)) <= 20)
       => \A c \in indexedFor :
              \E k \in 1 .. Len(answer'.sources) :
                  /\ answer'.sources[k].contentId = c
                  /\ \E id \in DOMAIN store :
                        /\ store[id].metadata.contentId = c
                        /\ store[id].metadata.text = answer'.sources[k].text]_vars

-----------------------------------------------------------------------------
(* Specification of answerQuestion on indexed stores *)

\* number of documents of Watched in the seeded stores
MaxDocs == 6

\* the records after a successful indexContent(userId, contentId, ...) whose
\* fetch returned extractedContent
Indexed(records, userId, contentId, extractedContent) ==
    LET chunks == IndexChunks(Title(ContentRank(contentId)), Link, FallbackText,
                              extractedContent)
    IN upsertChunks(records, userId, contentId,
                    ChunksWithEmbeddings(chunks, Embeddings(chunks)))

\* what the documents of a seeded store were indexed with: nothing fetched for
\* any, a page for each, or a long page for the first and nothing for the rest
Patterns == {"short", "long", "big"}

SeedContent(pattern, k) ==
    CASE pattern = "short" -> EmptyStr
      [] pattern = "long" -> LongContent
      [] OTHER -> IF k = 1 THEN BigContent ELSE EmptyStr

\* the index after u2 has indexed the last content id and Watched the first n
RECURSIVE SeedStore(_, _)
SeedStore(n, pattern) ==
    IF n = 0 THEN Indexed(<<>>, "u2", ContentSeq[Len(ContentSeq)], EmptyStr)
    ELSE Indexed(SeedStore(n - 1, pattern), Watched, ContentSeq[n],
                 SeedContent(pattern, n))

InitAnswer ==
    /\ IdleChunk
    /\ IdleEmbed
    /\ IdleRate
    /\ IdleFetch
    /\ store \in {SeedStore(n, pattern) : n \in 0 .. MaxDocs, pattern \in Patterns}
    /\ index = IdleIndex
    /\ unindex = IdleUnindex
    /\ answer = IdleAnswer
    /\ indexedFor = ContentIdsIn(store, Watched)
    /\ unindexed = {}
    /\ IdleProbe
    /\ IdleDocs

NextAnswer ==
    \/ \E userId \in Users, question \in Questions : AnswerStart(userId, question)
    \/ AnswerLoaded
    \/ AnswerEmbedded
    \/ \E order \in TieOrders : AnswerQuery1(order)
    \/ \E order \in TieOrders : AnswerQuery2(order)
    \/ AnswerGenerated
    \/ \E ok \in BOOLEAN, response \in TitleResponses : AnswerTitled(ok, response)
    \/ AnswerFails

SpecAnswer == InitAnswer /\ [][NextAnswer]_vars

\* C6: the sources of an answer have pairwise distinct contentIds, are at most
\* 5, and are never more than the distinct contentIds the user has in the
\* index.
C6_SourceBound ==
    answer.pc \in {"generating", "titling", "returned"} =>
        /\ Len(answer.sources) <= 5
        /\ \A j, k \in 1 .. Len(answer.sources) :
              j # k => answer.sources[j].contentId # answer.sources[k].contentId
        /\ Len(answer.sources) <= Cardinality(ContentIdsIn(store, answer.userId))

\* a user with six documents got five sources
C6_Witness ==
    /\ answer.pc = "returned"
    /\ answer.userId = Watched
    /\ Cardinality(ContentIdsIn(store, Watched)) = 6
    /\ Len(answer.sources) = 5

\* the least position of a hit of the contentId among the hits
FirstSeen(hits, contentId) ==
    CHOOSE j \in 1 .. Len(hits) :
        /\ hits[j].contentId = contentId
        /\ \A i \in 1 .. j - 1 : hits[i].contentId # contentId

\* the best score of the contentId among the hits
BestScore(hits, contentId) ==
    CHOOSE s \in {hits[j].score : j \in {i \in 1 .. Len(hits) : hits[i].contentId = contentId}} :
        \A j \in 1 .. Len(hits) : hits[j].contentId = contentId => hits[j].score <= s

\* C19: the sources of an answer are exactly min(5, distinct contentIds of the
\* final hits) many; each one is the first hit of its contentId, which is the
\* highest-scoring hit of that contentId; their scores do not increase; no
\* contentId left out has a best score above that of a source; and the call
\* returns these sources.
C19_Selection ==
    /\ [](answer.pc \in {"generating", "titling"} =>
            LET hits == answer.hits
                sources == answer.sources
                distinct == Cardinality(ContentIdsOf(hits))
            IN /\ Len(sources) = (IF distinct < 5 THEN distinct ELSE 5)
               /\ \A k \in 1 .. Len(sources) :
                     /\ sources[k].contentId \in ContentIdsOf(hits)
                     /\ LET hit == hits[FirstSeen(hits, sources[k].contentId)]
                        IN /\ sources[k].text = hit.text
                           /\ sources[k].score = hit.score
                     /\ sources[k].score = BestScore(hits, sources[k].contentId)
               /\ \A j, k \in 1 .. Len(sources) :
                     j < k => sources[j].score >= sources[k].score
               /\ \A contentId \in ContentIdsOf(hits) :
                     (\A k \in 1 .. Len(sources) : sources[k].contentId # contentId)
                        => \A k \in 1 .. Len(sources) :
                              BestScore(hits, contentId) <= sources[k].score)
    /\ [][answer.pc = "titling" /\ answer'.pc = "returned" =>
              answer'.sources = answer.sources]_vars

\* six documents were hit, one of them by two chunks of different scores of
\* which the better one is a source, and one document is left out
C19_Witness ==
    /\ answer.pc = "generating"
    /\ Cardinality(ContentIdsOf(answer.hits)) = 6
    /\ Len(answer.sources) = 5
    /\ \E k \in 1 .. Len(answer.sources) :
          \E j \in 1 .. Len(answer.hits) :
              /\ answer.hits[j].contentId = answer.sources[k].contentId
              /\ answer.hits[j].score < answer.sources[k].score

\* C15: when the final searchResults of answerQuestion are empty, the call
\* goes on to the title request with the canned answer and no sources, without
\* a request to the answer generator, and what it returns is the canned
\* answer, no sources and a title that is not empty.
C15_EmptyRetrieval ==
    /\ [][(/\ answer.pc \in {"query1", "query2"}
            /\ answer'.pc \notin {"query1", "query2", "failed"}
            /\ answer'.hits = <<>>)
           => /\ answer'.pc = "titling"
              /\ answer'.answer = "canned"
              /\ answer'.sources = <<>>]_vars
    /\ [][answer'.answer = "generated" /\ answer.answer # "generated" =>
            answer.pc = "generating" /\ Len(answer.hits) > 0]_vars
    /\ [][answer.pc = "titling" /\ answer.answer = "canned" /\ answer' # answer =>
            /\ answer'.pc = "returned"
            /\ answer'.answer = "canned"
            /\ answer'.sources = <<>>
            /\ StrLen(answer'.title) > 0]_vars

\* a user without any record got the canned answer, no sources and a title
C15_Witness ==
    /\ answer.pc = "returned"
    /\ answer.answer = "canned"
    /\ answer.queries = 2
    /\ answer.sources = <<>>
    /\ StrLen(answer.title) > 0
    /\ RecordsOf(store, answer.userId) = {}

\* the i-th character of a string
RECURSIVE CharAt(_, _)
CharAt(s, i) == IF i <= s[1][2] THEN s[1][1] ELSE CharAt(Tail(s), i - s[1][2])

\* C11: answerQuestion ends in failure exactly from an awaited createEmbedding,
\* searchChunks or generateAnswer that rejects, and then nothing of an answer,
\* its sources or its title is returned; the await of generateChatTitle always
\* ends with a returned result, and when the title request failed the title
\* is the first 50 characters of the question.
C11_FailureClassification ==
    /\ [][answer'.pc = "failed" /\ answer.pc # "failed" =>
            /\ answer.pc \in {"embedding", "query1", "query2", "generating"}
            /\ answer'.answer = "none"
            /\ answer'.sources = <<>>
            /\ answer'.title = <<>>]_vars
    /\ [][answer.pc = "titling" /\ answer' # answer =>
            /\ answer'.pc = "returned"
            /\ answer'.answer = answer.answer
            /\ answer'.sources = answer.sources
            /\ answer'.titleFailed =>
                  /\ StrLen(answer'.title) <= TitleLimit
                  /\ StrLen(answer'.title) =
                        (IF StrLen(answer.question) < TitleLimit
                         THEN StrLen(answer.question) ELSE TitleLimit)
                  /\ \A i \in 1 .. StrLen(answer'.title) :
                        CharAt(answer'.title, i) = CharAt(answer.question, i)]_vars
    /\ [][answer'.pc = "returned" /\ answer.pc # "returned" =>
            answer.pc = "titling"]_vars

\* an answer with sources was generated, the title request failed, and the
\* title returned is the 50-character prefix of a 60-character question
C11_Witness ==
    /\ answer.pc = "returned"
    /\ answer.titleFailed
    /\ answer.answer = "generated"
    /\ Len(answer.sources) > 0
    /\ StrLen(answer.question) = 60
    /\ answer.title = <<Run("a", 49), Run("b", 1)>>

-----------------------------------------------------------------------------
(* Specification of the chunker: chunkText applied to every bounded input *)

MaxTextLen == 5

MaxChunkSize == 4

ChunkAlphabet == {"a", "b", ".", " "}

RECURSIVE StringsUpTo(_)
StringsUpTo(n) ==
    IF n = 0 THEN {<<>>}
    ELSE LET shorter == StringsUpTo(n - 1)
         IN shorter \cup {Append(s, Ch(c)) : s \in {t \in shorter : Len(t) = n - 1},
                                             c \in ChunkAlphabet}

ChunkTexts == StringsUpTo(MaxTextLen)

InitChunk ==
    /\ IdleEmbed
    /\ IdleRate
    /\ IdleFetch
    /\ IdleRag
    /\ IdleProbe
    /\ IdleDocs
    /\ chunkIn \in [text : ChunkTexts, chunkSize : 0 .. MaxChunkSize]
    /\ chunkOut = <<>>
    /\ chunkDone = FALSE

ChunkCall ==
    /\ ~chunkDone
    /\ chunkOut' = chunkText(chunkIn.text, chunkIn.chunkSize)
    /\ chunkDone' = TRUE
    /\ UNCHANGED chunkIn
    /\ UNCHANGED exceptChunk

NextChunk == ChunkCall

SpecChunk == InitChunk /\ [][NextChunk]_vars

\* C9: for every non-empty text and every chunk size, chunkText returns at
\* least one chunk, and the chunks concatenated in order hold exactly the
\* non-white-space characters of the input, in the input's order.
C9_ChunkingLossless ==
    (chunkDone /\ StrLen(chunkIn.text) > 0) =>
        /\ Len(chunkOut) >= 1
        /\ Norm(NonWs(Flatten(chunkOut))) = Norm(NonWs(chunkIn.text))

\* a text of two sentences that does not fit one chunk has been chunked
C9_Witness ==
    /\ chunkDone
    /\ chunkIn.text = <<Ch("a"), Ch("."), Ch(" "), Ch("b"), Ch(".")>>
    /\ chunkIn.chunkSize = 2
    /\ Len(chunkOut) = 2

\* C24 as claimed: a sentence is appended to a running chunk only when the
\* result does not exceed chunkSize, so every chunk that chunkText returns with
\* two or more sentences in it has at most chunkSize characters.
C24_SoftCap ==
    chunkDone =>
        \A k \in 1 .. Len(chunkOut) :
            Len(SplitSentences(chunkOut[k])) >= 2 =>
                StrLen(chunkOut[k]) <= chunkIn.chunkSize

-----------------------------------------------------------------------------
(* Specification of URL validation: validateUrl applied to URLs built from a
   scheme, a separator, a host and a port, under every environment *)

\* a host of an input: four octets written in decimal, or a name
HostChars(host) ==
    IF host.kind = "ipv4"
    THEN Decimal(host.octets[1]) \o <<".">> \o Decimal(host.octets[2]) \o <<".">>
         \o Decimal(host.octets[3]) \o <<".">> \o Decimal(host.octets[4])
    ELSE host.name

\* the URL an input stands for
UrlOf(input) ==
    input.scheme \o input.sep \o HostChars(input.host) \o input.port \o input.path

UrlSchemes == {<<"h", "t", "t", "p">>, <<"h", "t", "t", "p", "s">>,
               <<"H", "T", "T", "P">>, <<"f", "t", "p">>, <<"f", "i", "l", "e">>,
               <<"g", "o", "p", "h", "e", "r">>}

UrlSeparators == {<<":", "/", "/">>, <<":">>}

FirstOctets == {1, 10, 11, 126, 127, 128, 169, 172, 192, 255}

SecondOctets == {0, 15, 16, 31, 32, 168, 254, 255}

LastOctets == {1, 255}

\* the name e-acute.com with its first letter percent-encoded (UTF-8), which
\* the platform's parser turns into xn--9ca.com
HostAccented == <<"%", "c", "3", "%", "a", "9", ".", "c", "o", "m">>

\* a name whose first label is no valid Punycode (it decodes to U+0080): the
\* platform's parser refuses it, so that no URL has this host
HostRefused == <<"x", "n", "-", "-", "a", ".", "c", "o", "m">>

\* a name whose first label is Punycode for e-acute
HostPunycode == <<"x", "n", "-", "-", "9", "c", "a", ".", "c", "o", "m">>

\* a name whose first label is Punycode for the ASCII label 9ca, which the
\* platform's parser takes as it is
HostDecoded == <<"x", "n", "-", "-", "9", "c", "a", "-", ".", "e", "x", "a", "m", "p",
                 "l", "e", ".", "c", "o", "m">>

UrlHosts ==
    {[kind |-> "ipv4", octets |-> <<a, b, 1, d>>, name |-> <<>>] :
        a \in FirstOctets, b \in SecondOctets, d \in LastOctets}
    \cup {[kind |-> "name", octets |-> <<>>, name |-> n] :
            n \in {HostExample,
                   <<"E", "x", "a", "m", "p", "l", "e", ".", "c", "o", "m">>,
                   <<"1", "0", ".", "e", "x", "a", "m", "p", "l", "e", ".", "c", "o", "m">>,
                   <<"w", "w", "w", ".", "1", "2", "7", ".", "n", "e", "t">>,
                   HostAccented, HostPunycode, HostDecoded, HostRefused}}

UrlPorts == {<<>>, <<":", "8", "0", "8", "0">>}

UrlInputs ==
    [scheme : UrlSchemes, sep : UrlSeparators, host : UrlHosts, port : UrlPorts,
     path : {<<"/", "x">>}]

InitUrl ==
    /\ IdleChunk
    /\ IdleEmbed
    /\ IdleRate
    /\ env \in Envs
    /\ fetch = IdleCall
    /\ IdleRag
    /\ IdleDocs
    /\ \E input \in UrlInputs :
          probe = [input |-> input, url |-> UrlOf(input), verdict |-> "none"]

\* validateUrl(url) is called
ValidateCall ==
    /\ probe.verdict = "none"
    /\ probe' = [probe EXCEPT !.verdict = validateUrl(probe.url, env.allowed)]
    /\ UNCHANGED <<chunkVars, embedVars, rateVars, fetchVars, ragVars, docVars>>

NextUrl == ValidateCall

SpecUrl == InitUrl /\ [][NextUrl]_vars

\* the address a.b.c.d lies in 127.0.0.0/8, 10.0.0.0/8, 172.16.0.0/12,
\* 192.168.0.0/16 or 169.254.0.0/16
InPrivateRange(octets) ==
    \/ octets[1] = 127
    \/ octets[1] = 10
    \/ octets[1] = 172 /\ octets[2] \in 16 .. 31
    \/ octets[1] = 192 /\ octets[2] = 168
    \/ octets[1] = 169 /\ octets[2] = 254

HttpSchemes == {<<"h", "t", "t", "p">>, <<"h", "t", "t", "p", "s">>, <<"H", "T", "T", "P">>}

\* the platform takes the probed string for a URL
WellFormed == NewURL(probe.url).ok

\* C13: validateUrl rejects as blocked every URL (a string the platform's
\* parser accepts) whose host is an IPv4 literal of a private, loopback or
\* link-local range and every URL whose scheme is not http or https, under
\* every environment; with no allow-list it accepts every http(s) URL whose
\* host is a public name (the one name that domain-to-ASCII refuses makes no
\* URL: the string is rejected as malformed).
C13_Ipv4AndScheme ==
    probe.verdict # "none" =>
        /\ (/\ WellFormed
            /\ probe.input.host.kind = "ipv4"
            /\ InPrivateRange(probe.input.host.octets))
              => probe.verdict = "blocked"
        /\ (WellFormed /\ probe.input.scheme \notin HttpSchemes)
              => probe.verdict = "blocked"
        /\ (/\ probe.input.scheme \in HttpSchemes
            /\ probe.input.host.kind = "name"
            /\ env.allowed = <<>>)
              => probe.verdict = IF probe.input.host.name = HostRefused
                                 THEN "invalid" ELSE "ok"

\* http://172.31.1.255:8080/x was rejected as blocked
C13_Witness ==
    /\ probe.verdict = "blocked"
    /\ probe.input.scheme = <<"h", "t", "t", "p">>
    /\ probe.input.sep = <<":", "/", "/">>
    /\ probe.input.host.kind = "ipv4"
    /\ probe.input.host.octets = <<172, 31, 1, 255>>
    /\ probe.input.port # <<>>
    /\ env.allowed = <<>>

-----------------------------------------------------------------------------
(* Specification of ingestion: one indexContent call with the fetch it makes,
   from every environment and seeded limiter state *)

\* the characters of a string literal
Unlit(s) == [i \in 1 .. Len(s) |-> s[i][1]]

IngestUrls == FetchUrls

InitIngest == InitFetch

\* the one indexContent call of a behaviour is made: it calls
\* extractContentFromUrl(link, userId), which runs to its first await
IngestStart(url) ==
    /\ IndexBegin(Watched, "c1", url, FallbackText)
    /\ FetchBegin(url, Watched)
    /\ UNCHANGED <<env, store, answer, indexedFor, embeddingPipeline, chunkVars, many,
                   one, now, admitLog, rejectedAt, probe, docVars>>

\* extractContentFromUrl returns to indexContent
IngestFetchReturns ==
    /\ fetch.pc = "returned"
    /\ IndexFetched(fetch.result)

\* an await of indexContent rejects: extractContentFromUrl when it threw,
\* createEmbeddings, upsertChunks
IngestFails ==
    /\ index.pc = "fetching" => fetch.pc = "threw"
    /\ IndexFails

NextIngest ==
    \/ \E url \in IngestUrls : IngestStart(url)
    \/ \E text \in {TweetText, EmptyStr} : TwitterApi(text)
    \/ \E o \in Outcomes, jitter \in Jitters : Attempt(o, jitter)
    \/ BackoffDone
    \/ IngestFetchReturns
    \/ IndexLoaded
    \/ IndexEmbedded
    \/ IndexUpsert
    \/ IngestFails

SpecIngest == InitIngest /\ [][NextIngest]_vars

\* the indexContent call got past its fetch: it chose a body and went on to
\* embed, or has ended after that
PastFetch ==
    \/ index.pc \in {"embedding", "upserting"}
    \/ index.pc = "idle" /\ index.result \in {"ok", "embedding", "upserting"}

\* the indexContent call threw on its fetch, with nothing embedded or written
AbortedOnFetch ==
    /\ index.pc = "idle"
    /\ index.result = "fetching"
    /\ embeddingPipeline = Null
    /\ store = <<>>

\* C16 as claimed: an indexContent call whose link is blocked by validation or
\* whose user is over the quota never gets past its fetch.
C16_SecurityAborts ==
    (CallEnded /\ (UrlBlocked \/ OverQuota)) => ~PastFetch

\* C16 amended: an indexContent call whose link is blocked by validation, or
\* whose link passes validation while its user is over the quota, ends on its
\* fetch with the error, with nothing embedded and no record written; a call
\* whose fetch failed in another way (a malformed link also for a user over
\* the quota, the retrieval, the document) goes on with the body it has
\* without the fetched content.
C16_SecurityOrFallback ==
    /\ (CallEnded /\ (UrlBlocked \/ (validateUrl(fetch.url, env.allowed) = "ok"
                                      /\ OverQuota)))
          => /\ fetch.pc = "threw"
             /\ ~PastFetch
             /\ index.pc = "idle" => AbortedOnFetch
    /\ (fetch.pc = "returned" /\ fetch.failed /\ index.pc = "embedding")
          => index.chunks = IndexChunks(index.title, index.link, index.text, EmptyStr)
    /\ (fetch.pc \notin {"returned", "threw"}) => index.pc \in {"idle", "fetching"}

\* an indexContent call for a loopback link has thrown on its fetch
C16_Witness ==
    /\ fetch.url = UrlLoopback
    /\ fetch.pc = "threw"
    /\ AbortedOnFetch

-----------------------------------------------------------------------------
(* Specification of the failures of ingestion: the indexContent call with the
   fetch it makes, from every environment and seeded limiter state inside the
   seeded window, on an index that is empty or holds the records of an earlier
   indexing of the document *)

\* the records before the call: none, or the two chunks of an earlier
\* indexing of the document by Watched
StoredBefore == {<<>>, Indexed(<<>>, Watched, "c1", LongContent)}

InitWhole ==
    /\ IdleChunk
    /\ IdleEmbed
    /\ env \in Envs
    /\ fetch = IdleCall
    /\ now = 0
    /\ userRequestCounts \in SeedCounts
    /\ admitLog = <<>>
    /\ rejectedAt = -1
    /\ store \in StoredBefore
    /\ index = IdleIndex
    /\ unindex = IdleUnindex
    /\ answer = IdleAnswer
    /\ indexedFor = ContentIdsIn(store, Watched)
    /\ unindexed = {}
    /\ IdleProbe
    /\ IdleDocs

\* the text of the request: the short one, or a long one of two chunks
WholeTexts == {FallbackText, LongContent}

\* the indexContent call of a behaviour is made with a text of the request,
\* which becomes the body when the page gives less than MinBody characters
WholeStart(url, text) ==
    /\ IndexBegin(Watched, "c1", url, text)
    /\ FetchBegin(url, Watched)
    /\ UNCHANGED <<env, store, answer, indexedFor, embeddingPipeline, chunkVars, many,
                   one, now, admitLog, rejectedAt, probe, docVars>>

NextWhole ==
    \/ \E url \in IngestUrls, text \in WholeTexts : WholeStart(url, text)
    \/ \E text \in {TweetText, EmptyStr} : TwitterApi(text)
    \/ \E o \in Outcomes, jitter \in Jitters : Attempt(o, jitter)
    \/ BackoffDone
    \/ IngestFetchReturns
    \/ IndexLoaded
    \/ IndexEmbedded
    \/ IndexUpsert
    \/ IngestFails

SpecWhole == InitWhole /\ [][NextWhole]_vars

\* the ids of the records that the upsert of the call carries
RequestIds(call) == {RecordId(call.contentId, i) : i \in 0 .. Len(call.chunks) - 1}

\* C12 as claimed: a step of an indexContent call changes the records of the
\* index only when it is the step on which the call returns with success; a
\* call that throws, whatever await rejected (the fetch with a security or
\* quota error, the embedding, the upsert), has left every record as it was.
C12_AllOrNothing ==
    /\ [][index.pc # "idle" /\ index' # index /\ index'.result # "ok" =>
            store' = store]_vars
    /\ [][index.pc = "idle" /\ index' # index => store' = store]_vars
    /\ [][index'.pc = "idle" /\ index.pc # "idle" =>
            index'.result \in {"ok", "fetching", "embedding", "upserting"}]_vars

\* C12 amended: every indexContent call ends with success or with the error
\* that names no partial result.  A call that fails before its upsert (the
\* fetch with a security or quota error, the embedding, the count of the
\* embeddings) has left every record as it was.  A call whose upsert is
\* rejected removes nothing and writes nothing after the rejection, and it
\* does not undo what the index applied of the rejected request: every record
\* is as it was before the step or is the record of the call for its id, so
\* that a part of the chunks of the document can be left written.
C12_WholeBeforeUpsert ==
    /\ [][index.pc \in {"idle", "fetching", "embedding"} /\ index' # index =>
            store' = store]_vars
    /\ [][index.pc = "upserting" /\ index' # index /\ index'.result # "ok" =>
            /\ index'.result = "upserting"
            /\ DOMAIN store \subseteq DOMAIN store'
            /\ \A id \in DOMAIN store' :
                  \/ id \in DOMAIN store /\ store'[id] = store[id]
                  \/ /\ id \in RequestIds(index)
                     /\ store'[id] = Applied(store, index)[id]]_vars
    /\ [][index'.pc = "idle" /\ index.pc # "idle" =>
            index'.result \in {"ok", "fetching", "embedding", "upserting"}]_vars
    /\ [][index'.pc = "idle" /\ index.pc = "fetching" =>
            index.fetchError \in {"blocked", "ratelimited"}
               /\ index'.result = "fetching"]_vars

\* an indexContent call for a document of two chunks threw because
\* index.upsert rejected, and the index, empty before, holds the first of the
\* two chunks and not the second
C12_Witness ==
    /\ index.pc = "idle"
    /\ index.result = "upserting"
    /\ DOMAIN store = {RecordId("c1", 0)}
    /\ \E url \in IngestUrls :
          LET chunks == IndexChunks(Title(1), Lit(url), LongContent, EmptyStr)
          IN /\ Len(chunks) = 2
             /\ store[RecordId("c1", 0)].metadata.text = chunks[1]

-----------------------------------------------------------------------------
(* Specification of content creation: POST /api/v1/content requests, one after
   the other, each with the indexContent call it awaits *)

\* number of creation requests in a behaviour
MaxCreates == 2

\* ContentModel.deleteOne({ _id }): the documents without the one of that id
deleteOne(documents, contentId) ==
    [id \in DOMAIN documents \ {contentId} |-> documents[id]]

\* POST /api/v1/content arrives: ContentModel.create is awaited; the document
\* store gives the new document the next id
CreateStart(userId) ==
    /\ create.pc \in {"idle", "responded"}
    /\ create.made < MaxCreates
    /\ create' = [pc |-> "creating", userId |-> userId,
                  contentId |-> ContentSeq[create.made + 1], status |-> 0,
                  made |-> create.made + 1]
    /\ UNCHANGED <<docs, chunkVars, embedVars, rateVars, fetchVars, ragVars, probe, second, remove>>

\* ContentModel.create resolves: the document is stored and
\* indexContent(userId, id, title, link, title) is called and awaited
CreateInserted ==
    /\ create.pc = "creating"
    /\ index.pc = "idle"
    /\ docs' = MapSet(docs, create.contentId, create.userId)
    /\ create' = [create EXCEPT !.pc = "indexing"]
    /\ index' = IndexCalled(create.userId, create.contentId, UrlPublic,
                             Title(ContentRank(create.contentId)))
    /\ userRequestCounts' = Counted(UrlPublic, create.userId)
    /\ unindexed' = unindexed \ {create.contentId}
    /\ UNCHANGED <<store, unindex, answer, indexedFor, chunkVars, embedVars,
                   now, admitLog, rejectedAt, fetchVars, probe, second, remove>>

\* ContentModel.create rejects: the outer catch answers 500
CreateInsertFails ==
    /\ create.pc = "creating"
    /\ create' = [create EXCEPT !.pc = "responded", !.status = 500]
    /\ UNCHANGED <<docs, chunkVars, embedVars, rateVars, fetchVars, ragVars, probe, second, remove>>

\* indexContent returned: the request answers "Content Added"
CreateIndexed ==
    /\ create.pc = "indexing"
    /\ index.pc = "idle"
    /\ index.result = "ok"
    /\ create' = [create EXCEPT !.pc = "responded", !.status = 200]
    /\ UNCHANGED <<docs, chunkVars, embedVars, rateVars, fetchVars, ragVars, probe, second, remove>>

\* indexContent threw: the inner catch awaits ContentModel.deleteOne
CreateIndexFailed ==
    /\ create.pc = "indexing"
    /\ index.pc = "idle"
    /\ index.result \notin {"none", "ok"}
    /\ create' = [create EXCEPT !.pc = "rollback"]
    /\ UNCHANGED <<docs, chunkVars, embedVars, rateVars, fetchVars, ragVars, probe, second, remove>>

\* deleteOne resolves: the inner catch throws, the outer catch answers 500
RollbackApplied ==
    /\ create.pc = "rollback"
    /\ docs' = deleteOne(docs, create.contentId)
    /\ create' = [create EXCEPT !.pc = "responded", !.status = 500]
    /\ UNCHANGED <<chunkVars, embedVars, rateVars, fetchVars, ragVars, probe, second, remove>>

\* deleteOne rejects: its error leaves the inner catch, the outer catch
\* answers 500
RollbackFails ==
    /\ create.pc = "rollback"
    /\ create' = [create EXCEPT !.pc = "responded", !.status = 500]
    /\ UNCHANGED <<docs, chunkVars, embedVars, rateVars, fetchVars, ragVars, probe, second, remove>>

InitCreate ==
    /\ IdleChunk
    /\ many = IdleMany
    /\ one = IdleOne
    /\ embeddingPipeline = Null
    /\ IdleRate
    /\ IdleFetch
    /\ IdleRag
    /\ IdleProbe
    /\ IdleDocs

\* the steps of the server of index.ts with its POST /api/v1/content route
NextCreate ==
    \/ \E userId \in Users : CreateStart(userId)
    \/ CreateInserted
    \/ CreateInsertFails
    \/ \E extractedContent \in {EmptyStr, LongContent} : IndexFetched(extractedContent)
    \/ IndexLoaded
    \/ IndexEmbedded
    \/ IndexUpsert
    \/ IndexFails
    \/ CreateIndexed
    \/ CreateIndexFailed
    \/ RollbackApplied
    \/ RollbackFails

SpecCreate == InitCreate /\ [][NextCreate]_vars

\* C17 as claimed: once a creation request has answered, the document it
\* created is in the document store exactly when its indexContent call
\* returned with success, also when the compensating deleteOne can fail.
C17_CreatedIffIndexed ==
    create.pc = "responded" =>
        (create.contentId \in DOMAIN docs
            <=> (index.contentId = create.contentId /\ index.result = "ok"))

-----------------------------------------------------------------------------
(* Specification of answerQuestion on indexed stores that change while the
   call runs: the first document of Watched can be unindexed at any time *)

NextRequery ==
    \/ \E userId \in Users, question \in Questions : AnswerStart(userId, question)
    \/ AnswerLoaded
    \/ AnswerEmbedded
    \/ \E order \in TieOrders : AnswerQuery1(order)
    \/ \E order \in TieOrders : AnswerQuery2(order)
    \/ AnswerGenerated
    \/ \E ok \in BOOLEAN : AnswerTitled(ok, EmptyStr)
    \/ AnswerFails
    \/ UnindexStart(ContentSeq[1])
    \/ UnindexApply
    \/ UnindexFails

SpecRequery == InitAnswer /\ [][NextRequery]_vars

\* the hit is one of the hits
HitAmong(hit, hits) == \E k \in 1 .. Len(hits) : hits[k] = hit

\* C18: the first query asks for 10 hits; the call goes on without a second
\* query exactly when these cover at least 5 distinct contentIds; otherwise
\* one second query asks for 20 hits, its hits on the index as it is then
\* replace the first batch, and every source is taken from them; no further
\* query follows.
C18_Oversampling ==
    /\ [][(answer.pc = "query1" /\ answer' # answer /\ answer'.pc # "failed") =>
            /\ answer'.queries = 1
            /\ \E order \in TieOrders :
                  answer'.hits = searchChunks(store, answer.userId,
                                              answer.questionEmbedding, FirstTopK, order)
            /\ answer'.pc = "query2"
                  <=> Cardinality(ContentIdsOf(answer'.hits)) < DiversityFloor]_vars
    /\ [][(answer.pc = "query2" /\ answer' # answer /\ answer'.pc # "failed") =>
            /\ answer'.queries = 2
            /\ answer'.pc \in {"generating", "titling"}
            /\ answer'.discarded = answer.hits
            /\ \E order \in TieOrders :
                  answer'.hits = searchChunks(store, answer.userId,
                                              answer.questionEmbedding, SecondTopK, order)
            /\ \A k \in 1 .. Len(answer'.sources) :
                  \E j \in 1 .. Len(answer'.hits) :
                      /\ answer'.hits[j].contentId = answer'.sources[k].contentId
                      /\ answer'.hits[j].text = answer'.sources[k].text
                      /\ answer'.hits[j].score = answer'.sources[k].score]_vars
    /\ [][(answer.pc \in {"generating", "titling"}
                /\ answer'.pc \in {"titling", "returned"}) =>
            /\ answer'.queries = answer.queries
            /\ answer'.sources = answer.sources]_vars

\* the second query came back without a document that the first batch had
\* hit, and the sources are taken from the second batch
C18_Witness ==
    /\ answer.pc = "generating"
    /\ answer.queries = 2
    /\ Len(answer.sources) > 0
    /\ \E k \in 1 .. Len(answer.discarded) :
          /\ ~HitAmong(answer.discarded[k], answer.hits)
          /\ \A j \in 1 .. Len(answer.sources) :
                answer.sources[j].contentId # answer.discarded[k].contentId

-----------------------------------------------------------------------------
(* Specification of concurrent re-indexing: two indexContent calls for one
   content id, interleaved at their awaits; the second call carries an edited
   title *)

EditedTitle == Title(2)

ReindexContents == {EmptyStr, LongContent, BigContent}

\* a second indexContent(userId, contentId, title, link, text) is called
SecondStart(userId, contentId) ==
    /\ second.pc = "idle"
    /\ second' = [IndexCalled(userId, contentId, UrlPublic, FallbackText)
                      EXCEPT !.title = EditedTitle]
    /\ userRequestCounts' = Counted(UrlPublic, userId)
    /\ UNCHANGED <<docs, create, remove, chunkVars, embedVars, now, admitLog, rejectedAt,
                   fetchVars, ragVars, probe>>

SecondFetched(extractedContent) ==
    /\ second.pc = "fetching"
    /\ Fetchable(second.fetchError, extractedContent)
    /\ second' = [second EXCEPT !.pc = "embedding",
                                !.fetched = extractedContent,
                                !.loading = (embeddingPipeline = Null),
                                !.fullText = IndexText(second.title, second.link,
                                                       second.text, extractedContent),
                                !.chunks = IndexChunks(second.title, second.link,
                                                       second.text, extractedContent)]
    /\ UNCHANGED <<docs, create, remove, chunkVars, embedVars, rateVars, fetchVars,
                   ragVars, probe>>

SecondLoaded ==
    /\ second.pc = "embedding"
    /\ second.loading
    /\ embeddingPipeline' = "model"
    /\ second' = [second EXCEPT !.loading = FALSE]
    /\ UNCHANGED <<docs, create, remove, chunkVars, many, one, rateVars, fetchVars,
                   ragVars, probe>>

SecondEmbedded ==
    /\ second.pc = "embedding"
    /\ ~second.loading
    /\ UNCHANGED embeddingPipeline
    /\ LET embeddings == Embeddings(second.chunks)
       IN second' = IF Len(embeddings) = 0 \/ Len(embeddings) # Len(second.chunks)
                    THEN Ended(second, "embedding")
                    ELSE [second EXCEPT !.pc = "upserting",
                                        !.embeddings = embeddings]
    /\ UNCHANGED <<docs, create, remove, chunkVars, many, one, rateVars, fetchVars,
                   ragVars, probe>>

SecondUpsert ==
    /\ second.pc = "upserting"
    /\ store' = Applied(store, second)
    /\ second' = Ended(second, "ok")
    /\ UNCHANGED <<docs, create, remove, chunkVars, embedVars, rateVars, fetchVars,
                   index, unindex, answer, indexedFor, unindexed, probe>>

SecondFails ==
    /\ second.pc \in {"fetching", "embedding", "upserting"}
    /\ second.pc = "fetching" => second.fetchError \in {"blocked", "ratelimited"}
    /\ second' = Ended(second, second.pc)
    /\ \E written \in RejectedWrites(IF second.pc = "upserting"
                                      THEN Len(second.chunks) ELSE 0) :
          store' = IF second.pc = "upserting"
                   THEN upsertRejected(store, second.userId, second.contentId,
                                       ChunksWithEmbeddings(second.chunks,
                                                            second.embeddings),
                                       written)
                   ELSE store
    /\ UNCHANGED <<docs, create, remove, chunkVars, embedVars, rateVars, fetchVars,
                   index, unindex, answer, indexedFor, unindexed, probe>>

NextReindex ==
    \/ \E userId \in Users : MoreCalls /\ IndexStart(userId, ContentSeq[1])
    \/ \E extractedContent \in ReindexContents : IndexFetched(extractedContent)
    \/ IndexLoaded
    \/ IndexEmbedded
    \/ IndexUpsert
    \/ IndexFails
    \/ \E userId \in Users : MoreCalls /\ SecondStart(userId, ContentSeq[1])
    \/ \E extractedContent \in ReindexContents : SecondFetched(extractedContent)
    \/ SecondLoaded
    \/ SecondEmbedded
    \/ SecondUpsert
    \/ SecondFails

SpecReindex == InitRag /\ [][NextReindex]_vars

\* the record a call writes for its chunk i (counted from 0)
RecordOfCall(call, i) ==
    [values |-> call.embeddings[i + 1],
     metadata |-> [userId |-> call.userId, contentId |-> call.contentId,
                   text |-> call.chunks[i + 1], chunkIndex |-> i]]

\* the step applies the upsert of the call: every record of its chunks is the
\* call's, every other record is as it was
WritesOver(call) ==
    /\ \A i \in 0 .. Len(call.chunks) - 1 :
          /\ RecordId(call.contentId, i) \in DOMAIN store'
          /\ store'[RecordId(call.contentId, i)] = RecordOfCall(call, i)
    /\ \A id \in DOMAIN store' :
          id \notin {RecordId(call.contentId, i) : i \in 0 .. Len(call.chunks) - 1}
             => id \in DOMAIN store /\ store'[id] = store[id]

\* the step is a rejected upsert of the call of which the index kept a part:
\* every record that changed is the call's record for its chunk index, no
\* record is removed
WritesPart(call) ==
    /\ DOMAIN store \subseteq DOMAIN store'
    /\ \A id \in DOMAIN store' :
          \/ id \in DOMAIN store /\ store'[id] = store[id]
          \/ \E i \in 0 .. Len(call.chunks) - 1 :
                /\ id = RecordId(call.contentId, i)
                /\ store'[id] = RecordOfCall(call, i)

\* the record is chunk i of some indexContent call of the specification
FromOneCall(record, i) ==
    \E userId \in Users, title \in {Title(1), EditedTitle},
       extractedContent \in ReindexContents :
        LET chunks == IndexChunks(title, Link, FallbackText, extractedContent)
        IN /\ i < Len(chunks)
           /\ record = [values |-> pipe(chunks[i + 1]),
                        metadata |-> [userId |-> userId, contentId |-> ContentSeq[1],
                                      text |-> chunks[i + 1], chunkIndex |-> i]]

\* C22: with two indexContent calls for one contentId in flight, the records
\* change only on the step that applies the upsert of one of the calls; the
\* upsert of a call that returns puts the call's record at every chunk index
\* of the call, whatever the other call had written there, and leaves every
\* other record; of an upsert that is rejected the index keeps nothing or the
\* call's record at some of its chunk indexes; so for each chunk index the
\* record is that of the call applied last for it; and every record is,
\* whole, the record some one call writes for that index.
C22_LastWriterWins ==
    /\ [][store' # store =>
            \/ index.pc = "upserting" /\ index'.result = "ok" /\ second' = second
               /\ WritesOver(index)
            \/ second.pc = "upserting" /\ second'.result = "ok" /\ index' = index
               /\ WritesOver(second)
            \/ index.pc = "upserting" /\ index'.result = "upserting"
               /\ second' = second /\ WritesPart(index)
            \/ second.pc = "upserting" /\ second'.result = "upserting"
               /\ index' = index /\ WritesPart(second)]_vars
    /\ [](\A id \in DOMAIN store : FromOneCall(store[id], store[id].metadata.chunkIndex))

\* both calls have returned; chunk 0 is the one-chunk text of the call with the
\* edited title, chunk 1 is still the one the other call wrote
C22_Witness ==
    /\ index.pc = "idle" /\ index.result = "ok"
    /\ second.pc = "idle" /\ second.result = "ok"
    /\ DOMAIN store = {RecordId("c1", 0), RecordId("c1", 1)}
    /\ store[RecordId("c1", 0)].metadata.text
          = IndexChunks(EditedTitle, Link, FallbackText, EmptyStr)[1]
    /\ store[RecordId("c1", 0)].metadata.userId = "u1"
    /\ store[RecordId("c1", 1)].metadata.userId = "u2"

-----------------------------------------------------------------------------
(* Specification of the body selection of indexContent: calls with texts and
   fetched contents of lengths around the threshold of 50 characters *)

\* the lengths of the texts given by the caller and of the fetched contents
BodyLengths == {0, 1, 49, 50, 51, 120}

\* a text of n characters given by the caller, a fetched content of n characters
TextOf(n) == IF n = 0 THEN EmptyStr ELSE <<Run("t", n)>>

FetchedOf(n) == IF n = 0 THEN EmptyStr ELSE <<Run("f", n)>>

\* indexContent(userId, contentId, title, link, text) is called
BodyCall(userId, n) ==
    /\ index.pc = "idle"
    /\ index' = IndexCalled(userId, ContentSeq[1], UrlPublic, TextOf(n))
    /\ userRequestCounts' = Counted(UrlPublic, userId)
    /\ UNCHANGED <<store, unindex, answer, indexedFor, unindexed, embeddingPipeline,
                   chunkVars, many, one, now, admitLog, rejectedAt, fetchVars, probe,
                   docVars>>

NextBody ==
    \/ \E userId \in Users, n \in BodyLengths : MoreCalls /\ BodyCall(userId, n)
    \/ \E n \in BodyLengths : IndexFetched(FetchedOf(n))
    \/ IndexLoaded
    \/ IndexEmbedded
    \/ IndexUpsert
    \/ IndexFails

SpecBody == InitRag /\ [][NextBody]_vars

\* "Title: <title>\nLink: <link>"
TitleAndLink(title, link) ==
    Lit(<<"T", "i", "t", "l", "e", ":", " ">>) \o title
    \o Lit(<<"\n", "L", "i", "n", "k", ":", " ">>) \o link

\* C23: the body of an indexContent call is the fetched content when that has
\* at least 50 characters and the text given by the caller otherwise; the text
\* that is chunked is title, link and body when the body has at least 50
\* characters and title and link alone otherwise.
C23_BodySelection ==
    index.pc \in {"embedding", "upserting"} =>
        LET body == IF StrLen(index.fetched) >= 50 THEN index.fetched ELSE index.text
            head == TitleAndLink(index.title, index.link)
        IN /\ StrLen(body) >= 50 =>
                 index.fullText = head \o Lit(<<"\n", "\n", "C", "o", "n", "t", "e",
                                                "n", "t", ":", "\n">>) \o body
           /\ StrLen(body) < 50 => index.fullText = head
           /\ index.chunks = chunkText(index.fullText, ChunkSize)

\* the fetched content of exactly 50 characters was chosen over a longer text
\* of the caller and is part of the text that is chunked
C23_Witness ==
    /\ index.pc = "embedding"
    /\ StrLen(index.fetched) = 50
    /\ StrLen(index.text) = 51
    /\ StrLen(index.fullText) = StrLen(TitleAndLink(index.title, index.link)) + 11 + 50

-----------------------------------------------------------------------------
(* Specification of content deletion: DELETE /api/v1/content requests next to
   the creation requests, interleaved at their awaits *)

\* a contentId that is no ObjectId
InvalidId == "not-an-id"

\* mongoose.Types.ObjectId.isValid(contentId): the ids the document store
\* gives out are ObjectIds, the other strings of the model are not
ObjectIdIsValid(contentId) ==
    \E k \in 1 .. Len(ContentSeq) : ContentSeq[k] = contentId

\* the contentId of the request body: none, a string that is no ObjectId, or
\* one of the ids the document store gives out
RemoveIds == {"", InvalidId, ContentSeq[1], ContentSeq[2]}

\* ContentModel.deleteOne({ _id, userId }): the number of deleted documents and
\* the documents that are left
deleteOwned(documents, contentId, userId) ==
    IF contentId \in DOMAIN documents /\ documents[contentId] = userId
    THEN [deletedCount |-> 1, documents |-> deleteOne(documents, contentId)]
    ELSE [deletedCount |-> 0, documents |-> documents]

\* DELETE /api/v1/content arrives: without a contentId it answers 400
\* "contentId is required in request body", with a contentId that is no
\* ObjectId 400 "Invalid Content ID format", both without a deleteOne; else
\* ContentModel.deleteOne is awaited
RemoveStart(userId, contentId) ==
    /\ remove.pc \in {"idle", "responded"}
    /\ remove' = IF contentId = "" \/ ~ObjectIdIsValid(contentId)
                 THEN [pc |-> "responded", userId |-> userId,
                       contentId |-> contentId, status |-> 400]
                 ELSE [pc |-> "deleting", userId |-> userId,
                       contentId |-> contentId, status |-> 0]
    /\ UNCHANGED <<docs, create, second, chunkVars, embedVars, rateVars, fetchVars,
                   ragVars, probe>>

\* deleteOne resolves: with no document deleted the request answers 404, else
\* unindexContent(contentId) is called and awaited
RemoveDeleted ==
    /\ remove.pc = "deleting"
    /\ unindex.pc = "idle"
    /\ LET result == deleteOwned(docs, remove.contentId, remove.userId)
       IN /\ docs' = result.documents
          /\ remove' = IF result.deletedCount = 0
                       THEN [remove EXCEPT !.pc = "responded", !.status = 404]
                       ELSE [remove EXCEPT !.pc = "unindexing"]
          /\ unindex' = IF result.deletedCount = 0 THEN unindex
                        ELSE [pc |-> "deleting", contentId |-> remove.contentId,
                              clean |-> index.pc = "idle"]
    /\ UNCHANGED <<store, index, answer, indexedFor, unindexed, create, second,
                   chunkVars, embedVars, rateVars, fetchVars, probe>>

\* deleteOne rejects: the outer catch answers 500
RemoveDeleteFails ==
    /\ remove.pc = "deleting"
    /\ remove' = [remove EXCEPT !.pc = "responded", !.status = 500]
    /\ UNCHANGED <<docs, create, second, chunkVars, embedVars, rateVars, fetchVars,
                   ragVars, probe>>

\* unindexContent returned or threw (the inner catch logs the error): the
\* request answers "Content deleted successfully"
RemoveUnindexed ==
    /\ remove.pc = "unindexing"
    /\ unindex.pc = "idle"
    /\ remove' = [remove EXCEPT !.pc = "responded", !.status = 200]
    /\ UNCHANGED <<docs, create, second, chunkVars, embedVars, rateVars, fetchVars,
                   ragVars, probe>>

\* the steps of the server of index.ts with its POST and DELETE
\* /api/v1/content routes
NextDelete ==
    \/ \E userId \in Users : CreateStart(userId)
    \/ CreateInserted
    \/ CreateInsertFails
    \/ \E extractedContent \in {EmptyStr, LongContent} : IndexFetched(extractedContent)
    \/ IndexLoaded
    \/ IndexEmbedded
    \/ IndexUpsert
    \/ IndexFails
    \/ CreateIndexed
    \/ CreateIndexFailed
    \/ RollbackApplied
    \/ RollbackFails
    \/ \E userId \in Users, contentId \in RemoveIds : RemoveStart(userId, contentId)
    \/ RemoveDeleted
    \/ RemoveDeleteFails
    \/ UnindexApply
    \/ UnindexFails
    \/ RemoveUnindexed

SpecDelete == InitCreate /\ [][NextDelete]_vars

\* no request is in flight: no creation, no deletion, and none of their calls
NothingInFlight ==
    /\ create.pc \in {"idle", "responded"}
    /\ remove.pc \in {"idle", "responded"}
    /\ index.pc = "idle"
    /\ unindex.pc = "idle"

\* C28 as claimed: once a DELETE /api/v1/content request for a contentId has
\* answered with success and no request is in flight, the vector store holds
\* no record of that contentId, whatever the interleaving with the creation
\* request and also when the vector-store delete fails.
C28_NoVectorsSurvive ==
    (remove.pc = "responded" /\ remove.status = 200 /\ NothingInFlight) =>
        RecordsOfContent(store, remove.contentId) = {}

-----------------------------------------------------------------------------
(* Specification of the server without retrieval: the express application of
   the earlier server file, whose POST and DELETE /api/v1/content routes make
   no indexContent and no unindexContent call.  A process runs this
   application or the one of index.ts, never both. *)

\* the process runs: no rejection of a handler has ended it
PlainUp == create.pc # "crashed"

\* POST /api/v1/content arrives: ContentModel.create is awaited
PlainStart(userId) ==
    /\ PlainUp
    /\ CreateStart(userId)

\* ContentModel.create resolves: the document is stored and the request
\* answers "Content Added"
PlainInserted ==
    /\ create.pc = "creating"
    /\ docs' = MapSet(docs, create.contentId, create.userId)
    /\ create' = [create EXCEPT !.pc = "responded", !.status = 200]
    /\ UNCHANGED <<chunkVars, embedVars, rateVars, fetchVars, ragVars, probe, second,
                   remove>>

\* what follows a rejection that an async handler does not catch: the
\* framework answers 500, or the request is left without an answer (status 0),
\* or the unhandled rejection ends the process
Uncaught == {[pc |-> "responded", status |-> 500],
             [pc |-> "responded", status |-> 0],
             [pc |-> "crashed", status |-> 0]}

\* ContentModel.create rejects: the handler has no try around the await
PlainInsertFails ==
    /\ create.pc = "creating"
    /\ \E end \in Uncaught :
          create' = [create EXCEPT !.pc = end.pc, !.status = end.status]
    /\ UNCHANGED <<docs, chunkVars, embedVars, rateVars, fetchVars, ragVars, probe,
                   second, remove>>

\* DELETE /api/v1/content arrives: without a contentId it answers 400; with a
\* contentId that is no ObjectId new mongoose.Types.ObjectId throws and the
\* catch answers 500; else ContentModel.deleteOne is awaited
PlainRemoveStart(userId, contentId) ==
    /\ PlainUp
    /\ remove.pc \in {"idle", "responded"}
    /\ remove' = IF contentId = ""
                 THEN [pc |-> "responded", userId |-> userId,
                       contentId |-> contentId, status |-> 400]
                 ELSE IF ~ObjectIdIsValid(contentId)
                 THEN [pc |-> "responded", userId |-> userId,
                       contentId |-> contentId, status |-> 500]
                 ELSE [pc |-> "deleting", userId |-> userId,
                       contentId |-> contentId, status |-> 0]
    /\ UNCHANGED <<docs, create, second, chunkVars, embedVars, rateVars, fetchVars,
                   ragVars, probe>>

\* deleteOne resolves: with no document deleted the request answers 404, else
\* "Deleted successfully"; the document store applies the deleteOne it was
\* sent also when the process has ended, and the request then has no answer
PlainRemoveDeleted ==
    /\ remove.pc = "deleting"
    /\ LET result == deleteOwned(docs, remove.contentId, remove.userId)
       IN /\ docs' = result.documents
          /\ remove' = IF ~PlainUp THEN [remove EXCEPT !.pc = "dropped"]
                       ELSE [remove EXCEPT !.pc = "responded",
                                           !.status = IF result.deletedCount = 0
                                                      THEN 404 ELSE 200]
    /\ UNCHANGED <<create, second, chunkVars, embedVars, rateVars, fetchVars,
                   ragVars, probe>>

\* deleteOne rejects: the catch answers 500
PlainRemoveFails ==
    /\ remove.pc = "deleting"
    /\ remove' = IF ~PlainUp THEN [remove EXCEPT !.pc = "dropped"]
                 ELSE [remove EXCEPT !.pc = "responded", !.status = 500]
    /\ UNCHANGED <<docs, create, second, chunkVars, embedVars, rateVars, fetchVars,
                   ragVars, probe>>

NextPlain ==
    \/ \E userId \in Users : PlainStart(userId)
    \/ PlainInserted
    \/ PlainInsertFails
    \/ \E userId \in Users, contentId \in RemoveIds : PlainRemoveStart(userId, contentId)
    \/ PlainRemoveDeleted
    \/ PlainRemoveFails

SpecPlain == InitCreate /\ [][NextPlain]_vars

=====
